---------------------------- MODULE Spec2Model ----------------------------
(***************************************************************************)
(* Tick-driven CPU scheduling simulator: the MLFQ engine (mlfq.py), the    *)
(* CFS engine (cfs.py) and the baseline policies FIFO, SJF, STCF and Round *)
(* Robin (baselines.py), over the shared Job model (job.py).               *)
(*                                                                         *)
(* A Python list of Job objects is a sequence of job indices into `jobs`   *)
(* (the engine's deep copies); `input` is the caller's list.  None is 0    *)
(* for current_job and for boost_interval (Python tests both by truth).    *)
(***************************************************************************)
EXTENDS Integers, Sequences, FiniteSets, TLC

VARIABLES
    engine,            \* which scheduler class runs
    input,             \* the caller's job list (never touched by schedule)
    jobs,              \* the deep copies, by position in the input list
    current_time,
    completed,         \* list of job indices, in completion event order
    waiting_jobs,      \* not yet arrived, sorted by arrival_time (stable)
    metrics,           \* result of MetricCalculator.calculate_metrics
    pc,                \* position in schedule()
    trace,             \* job index executed at each executed CPU tick, <<time, job>>
    \* MLFQScheduler
    num_queues, time_quantum, time_allotments, boost_interval,
    time_since_boost, queues, io_jobs, current_job, quantum_remaining,
    cpu_time_used, timeline, jobs_returned,
    snapshots,         \* history: what each tick's execute step found
    \* CFSScheduler
    vruntime, ready_jobs,
    \* baselines
    sorted_jobs, loop_i, remaining, ready_queue, rr_time_quantum,
    \* the caller
    calls,             \* schedule() calls on this instance that have returned
    previous,          \* what the previous call returned
    ctor_args          \* what the caller passes to Job(...) and MLFQScheduler(...)

commonVars == <<engine, input, jobs, current_time, completed, waiting_jobs,
                metrics, pc, trace>>
mlfqConfig == <<num_queues, time_quantum, time_allotments, boost_interval>>
mlfqVars   == <<time_since_boost, queues, io_jobs, current_job,
                quantum_remaining, cpu_time_used, timeline, jobs_returned,
                snapshots>>
cfsVars    == <<vruntime, ready_jobs>>
baseVars   == <<sorted_jobs, loop_i, remaining, ready_queue, rr_time_quantum>>
callVars   == <<calls, previous, ctor_args>>
vars == <<commonVars, mlfqConfig, mlfqVars, cfsVars, baseVars, callVars>>

---------------------------------------------------------------------------
(* Bounds of the model *)

MaxJobs == 2          \* jobs per run
MaxArrival == 2       \* arrival_time in 0..MaxArrival
MaxBurst == 4         \* burst_time in 1..MaxBurst
MaxIoDuration == 2    \* io_duration in 1..MaxIoDuration
MaxCtorField == 1     \* constructed priority / time_in_queue in 0..MaxCtorField
MaxPlainJobs == 3     \* jobs per run of the engines without I/O (CFS, baselines)

(* Program constants *)

UNSET == 0 - 1                \* the -1 sentinel of start/completion/io_return
DefaultIoDuration == 5
DefaultNumQueues == 3
DefaultRRQuantum == 2

---------------------------------------------------------------------------
(* Sequence helpers *)

Range(s) == {s[i] : i \in 1..Len(s)}

RECURSIVE SeqSum(_)
SeqSum(s) == IF s = <<>> THEN 0 ELSE Head(s) + SeqSum(Tail(s))

RECURSIVE Pow2(_)
Pow2(n) == IF n = 0 THEN 1 ELSE 2 * Pow2(n - 1)

Min2(a, b) == IF a <= b THEN a ELSE b

(* list.remove(x): drops the first occurrence *)
RECURSIVE RemoveFirst(_, _)
RemoveFirst(s, x) ==
    IF s = <<>> THEN <<>>
    ELSE IF Head(s) = x THEN Tail(s)
    ELSE <<Head(s)>> \o RemoveFirst(Tail(s), x)

(* sorted(xs): ascending, stable (insertion of each element after its equals) *)
RECURSIVE InsertSorted(_, _)
InsertSorted(s, x) ==
    IF s = <<>> THEN <<x>>
    ELSE IF x < Head(s) THEN <<x>> \o s
    ELSE <<Head(s)>> \o InsertSorted(Tail(s), x)

RECURSIVE SortedInts(_)
SortedInts(s) ==
    IF s = <<>> THEN <<>>
    ELSE InsertSorted(SortedInts(SubSeq(s, 1, Len(s) - 1)), s[Len(s)])

---------------------------------------------------------------------------
(* job.py: the Job dataclass *)

(* Job(...) followed by __post_init__: remaining_time is overwritten with
   burst_time whatever was passed; io_operations becomes a sorted deque.
   obj and io_obj are the identities of the Job object and of its deque:
   two records with the same identity are one Python object. *)
NewJob(id, arrival, burst, rem, prio, tiq, dur, ops) ==
    [ job_id          |-> id,
      arrival_time    |-> arrival,
      burst_time      |-> burst,
      remaining_time  |-> burst,
      priority        |-> prio,
      time_in_queue   |-> tiq,
      start_time      |-> UNSET,
      completion_time |-> UNSET,
      waiting_for_io  |-> FALSE,
      io_return_time  |-> UNSET,
      io_duration     |-> dur,
      io_operations   |-> SortedInts(ops),
      obj             |-> id,
      io_obj          |-> id ]

(* Job.needs_io: the test only *)
needs_io(job, cpu) ==
    /\ job.io_operations # <<>>
    /\ cpu = Head(job.io_operations)

(* a needs_io that leaves the offset in the deque *)
ConsumeIo_Keep(job) == job

(* Job.needs_io: the popleft done when the test succeeds *)
ConsumeIo(job) == [job EXCEPT !.io_operations = Tail(@)]

(* [copy.copy(job) for job in jobs]: new Job objects that share the deques *)
DeepCopy_Shallow(js) ==
    [i \in 1..Len(js) |-> [js[i] EXCEPT !.obj = Len(js) + i]]

(* [copy.deepcopy(job) for job in jobs]: new Job objects with new deques *)
DeepCopy(js) ==
    [i \in 1..Len(js) |-> [js[i] EXCEPT !.obj = Len(js) + i, !.io_obj = Len(js) + i]]

(* sorted(jobs, key=lambda x: x.arrival_time): indices, stable *)
RECURSIVE InsertByArrival(_, _, _)
InsertByArrival(js, s, i) ==
    IF s = <<>> THEN <<i>>
    ELSE IF js[i].arrival_time < js[Head(s)].arrival_time THEN <<i>> \o s
    ELSE <<Head(s)>> \o InsertByArrival(js, Tail(s), i)

RECURSIVE SortPrefixByArrival(_, _)
SortPrefixByArrival(js, n) ==
    IF n = 0 THEN <<>>
    ELSE InsertByArrival(js, SortPrefixByArrival(js, n - 1), n)

(* the job list taken in input order, unsorted *)
SortedByArrival_Unsorted(js) == [i \in 1..Len(js) |-> i]

SortedByArrival(js) == SortPrefixByArrival(js, Len(js))

(* the metrics computed over the completed list taken backwards *)
calculate_metrics_Reversed(js, done) ==
    LET n == Len(done)
        tt == [k \in 1..n |->
                 js[done[n + 1 - k]].completion_time - js[done[n + 1 - k]].arrival_time]
        rt == [k \in 1..n |->
                 js[done[n + 1 - k]].start_time - js[done[n + 1 - k]].arrival_time]
    IN  IF n = 0
        THEN [error |-> TRUE]
        ELSE [ error |-> FALSE,
               turnaround_times |-> tt,
               response_times |-> rt,
               avg_turnaround |-> <<SeqSum(tt), Len(tt)>>,
               avg_response |-> <<SeqSum(rt), Len(rt)>> ]

(* MetricCalculator.calculate_metrics; statistics.mean raises on an empty
   list, which is the "error" outcome.  A mean is kept as sum and count. *)
calculate_metrics(js, done) ==
    LET tt == [k \in 1..Len(done) |->
                 js[done[k]].completion_time - js[done[k]].arrival_time]
        rt == [k \in 1..Len(done) |->
                 js[done[k]].start_time - js[done[k]].arrival_time]
    IN  IF Len(done) = 0
        THEN [error |-> TRUE]
        ELSE [ error |-> FALSE,
               turnaround_times |-> tt,
               response_times |-> rt,
               avg_turnaround |-> <<SeqSum(tt), Len(tt)>>,
               avg_response |-> <<SeqSum(rt), Len(rt)>> ]


---------------------------------------------------------------------------
(* Workloads: the job lists a caller may pass *)

RECURSIVE SetToSeq(_)
SetToSeq(S) ==
    IF S = {} THEN <<>>
    ELSE LET m == CHOOSE x \in S : \A y \in S : x <= y
         IN  <<m>> \o SetToSeq(S \ {m})

MaxIoOps == 1         \* I/O offsets per job

(* strictly ascending offsets, each < burst_time *)
IoChoices(burst) ==
    {SetToSeq(S) : S \in {T \in SUBSET (0..(burst - 1)) : Cardinality(T) <= MaxIoOps}}

(* the (io_operations, io_duration) pairs of a job; without I/O the duration
   is never read and stays at the dataclass default *)
IoParamsFrom(lo, burst) ==
    {<<ops, d>> : ops \in IoChoices(burst) \ {<<>>}, d \in lo..MaxIoDuration}
        \cup {<<(<<>>), DefaultIoDuration>>}

IoParams(burst) == IoParamsFrom(1, burst)

(* jobs with I/O, constructed with the default priority and time_in_queue *)
IoJobParams ==
    UNION {{<<a, b, 0, 0, io[2], io[1]>> : a \in 0..MaxArrival, io \in IoParams(b)} :
              b \in 1..MaxBurst}

(* CPU-bound jobs constructed with any priority and time_in_queue *)
CtorJobParams ==
    {<<a, b, p, q, DefaultIoDuration, <<>> >> :
        a \in 0..MaxArrival, b \in 1..MaxBurst,
        p \in 0..MaxCtorField, q \in 0..MaxCtorField}

(* CPU-bound jobs with default fields *)
PlainJobParams ==
    {<<a, b, 0, 0, DefaultIoDuration, <<>> >> : a \in 0..MaxArrival, b \in 1..MaxBurst}

(* the list Job(1, ...), Job(2, ...), ...: job_id is the position *)
Workload(ps) ==
    [i \in 1..Len(ps) |->
        NewJob(i, ps[i][1], ps[i][2], ps[i][2], ps[i][3], ps[i][4], ps[i][5], ps[i][6])]

WorkloadsOf(P, max) == UNION {{Workload(ps) : ps \in [1..n -> P]} : n \in 0..max}

Workloads(P) == WorkloadsOf(P, MaxJobs)

---------------------------------------------------------------------------
(* mlfq.py: MLFQScheduler *)

BoostPeriod == 4      \* the boost interval of runs that boost

(* __init__: time_quantum defaults to [2**i for i in range(num_queues)] *)
DefaultQuantum(n) == [i \in 1..n |-> Pow2(i - 1)]

(* __init__: time_allotments defaults to [2*q for q in time_quantum] *)
DefaultAllotments(q) == [i \in 1..Len(q) |-> 2 * q[i]]

EmptyQueues(n) == [i \in 1..n |-> <<>>]

(* the loop test without `or current_job` *)
LoopCondition_NoCurrent(w, qs, cur, ioj) ==
    ~(w = <<>> /\ (\A l \in 1..Len(qs) : qs[l] = <<>>) /\ ioj = <<>>)

(* the loop test without `or io_jobs` *)
LoopCondition_NoIo(w, qs, cur, ioj) ==
    ~(w = <<>> /\ (\A l \in 1..Len(qs) : qs[l] = <<>>) /\ cur = 0)

(* while waiting_jobs or any(self.queues) or current_job or io_jobs *)
LoopCondition(w, qs, cur, ioj) ==
    ~(w = <<>> /\ (\A l \in 1..Len(qs) : qs[l] = <<>>) /\ cur = 0 /\ ioj = <<>>)

(* the boost test comparing with > : the boost comes one tick late *)
BoostDue_Late(bi, tsb) == bi # 0 /\ tsb > bi

(* Rule 5 test: self.boost_interval and time_since_boost >= boost_interval *)
BoostDue(bi, tsb) == bi # 0 /\ tsb >= bi

RECURSIVE Concat(_)
Concat(qs) == IF qs = <<>> THEN <<>> ELSE Head(qs) \o Concat(Tail(qs))

(* a boost that leaves every job in the queue it is in *)
BoostQueues_InPlace(qs) == qs

(* _boost_all_jobs: every queue is drained in level order into all_jobs,
   which is then appended to queue 0 *)
BoostQueues(qs) == [l \in 1..Len(qs) |-> IF l = 1 THEN Concat(qs) ELSE <<>>]

(* _boost_all_jobs: the jobs whose priority and time_in_queue are reset *)
BoostTargets(qs, cur) == Range(Concat(qs)) \cup (IF cur # 0 THEN {cur} ELSE {})

BoostJobs(js, S) ==
    [i \in DOMAIN js |->
        IF i \in S THEN [js[i] EXCEPT !.priority = 0, !.time_in_queue = 0] ELSE js[i]]

(* the I/O return test: current_time >= job.io_return_time *)
IoReturnDue(job, t) == t >= job.io_return_time

(* jobs_returned: the io_jobs whose wait is over, in io_jobs order *)
IoReturned(ioj, js, t) == SelectSeq(ioj, LAMBDA j : IoReturnDue(js[j], t))

(* each job of s inserted at the front of its level's queue *)
RECURSIVE EnqueueAll_Front(_, _, _)
EnqueueAll_Front(qs, js, s) ==
    IF s = <<>> THEN qs
    ELSE EnqueueAll_Front([qs EXCEPT ![js[Head(s)].priority + 1] = <<Head(s)>> \o @],
                          js, Tail(s))

(* self.queues[job.priority].append(job) for each job of s in order *)
RECURSIVE EnqueueAll(_, _, _)
EnqueueAll(qs, js, s) ==
    IF s = <<>> THEN qs
    ELSE EnqueueAll([qs EXCEPT ![js[Head(s)].priority + 1] = Append(@, Head(s))],
                    js, Tail(s))

(* the jobs popped by: while waiting_jobs and waiting_jobs[0].arrival_time <= current_time *)
RECURSIVE ArrivedPrefix(_, _, _)
ArrivedPrefix(w, js, t) ==
    IF w # <<>> /\ js[Head(w)].arrival_time <= t
    THEN <<Head(w)>> \o ArrivedPrefix(Tail(w), js, t)
    ELSE <<>>

(* an arrival that keeps the constructed priority and time_in_queue *)
Admitted_AsConstructed(job) == job

(* arrival: job.priority = 0; job.time_in_queue = 0 *)
Admitted(job) == [job EXCEPT !.priority = 0, !.time_in_queue = 0]

(* the retire test on the running job *)
RetireDue(js, cur, qrem) ==
    /\ cur # 0
    /\ (qrem <= 0 \/ js[cur].remaining_time <= 0 \/ js[cur].waiting_for_io)

(* which branch of the retire step is taken *)
RetireKind(js, cur, qrem) ==
    IF ~RetireDue(js, cur, qrem) THEN "none"
    ELSE IF js[cur].remaining_time <= 0 THEN "completed"
    ELSE IF js[cur].waiting_for_io THEN "io"
    ELSE "requeue"

(* the demotion test comparing with > : one quantum late *)
DemotionDue_Late(job, allot) == job.time_in_queue > allot[job.priority + 1]

(* the demotion test and its effect (Rule 4) *)
DemotionDue(job, allot) == job.time_in_queue >= allot[job.priority + 1]

(* a demotion that sends the job straight to the lowest level *)
Demoted_ToLowest(job, nq) ==
    [job EXCEPT !.priority = nq - 1, !.time_in_queue = 0]

Demoted(job, nq) ==
    [job EXCEPT !.priority = Min2(@ + 1, nq - 1), !.time_in_queue = 0]

Requeued(job, allot, nq) == IF DemotionDue(job, allot) THEN Demoted(job, nq) ELSE job

(* select looking at the top level only *)
SelectLevel_TopOnly(qs) == IF qs[1] # <<>> THEN 1 ELSE 0

(* select scanning the levels from the last one down *)
SelectLevel_Highest(qs) ==
    IF \E l \in 1..Len(qs) : qs[l] # <<>>
    THEN CHOOSE l \in 1..Len(qs) : qs[l] # <<>> /\ \A k \in (l + 1)..Len(qs) : qs[k] = <<>>
    ELSE 0

(* select: the first non-empty level, 1-based; 0 when all are empty *)
SelectLevel(qs) ==
    IF \E l \in 1..Len(qs) : qs[l] # <<>>
    THEN CHOOSE l \in 1..Len(qs) : qs[l] # <<>> /\ \A k \in 1..(l - 1) : qs[k] = <<>>
    ELSE 0

(* an I/O yield that also restarts the job's time at its level *)
Yielded_ResetsTime(job, t) ==
    [ConsumeIo(job) EXCEPT !.waiting_for_io = TRUE,
                           !.io_return_time = t + job.io_duration,
                           !.time_in_queue = 0]

(* the I/O yield of the execute step *)
Yielded(job, t) ==
    [ConsumeIo(job) EXCEPT !.waiting_for_io = TRUE,
                           !.io_return_time = t + job.io_duration]

(* one executed time unit *)
Executed(job) ==
    [job EXCEPT !.remaining_time = @ - 1, !.time_in_queue = @ + 1]


(* The constructor's state of the fields the other engines own *)
NoMlfq ==
    /\ num_queues = 0 /\ time_quantum = <<>> /\ time_allotments = <<>>
    /\ boost_interval = 0 /\ time_since_boost = 0 /\ queues = <<>>
    /\ io_jobs = <<>> /\ current_job = 0 /\ quantum_remaining = 0
    /\ cpu_time_used = 0 /\ timeline = <<>> /\ jobs_returned = <<>>
    /\ snapshots = <<>>

NoCfs == vruntime = <<>> /\ ready_jobs = <<>>

NoBase ==
    /\ sorted_jobs = <<>> /\ loop_i = 0 /\ remaining = <<>>
    /\ ready_queue = <<>> /\ rr_time_quantum = 0

(* the constructor calls are over and their arguments are not kept *)
NoArgs == [jobs |-> <<>>, num_queues |-> 0, time_quantum |-> <<>>,
           time_allotments |-> <<>>, boost_interval |-> 0]

(* No schedule() call has started: its locals do not exist yet *)
NotStarted ==
    /\ jobs = <<>> /\ current_time = 0 /\ completed = <<>>
    /\ waiting_jobs = <<>> /\ metrics = [error |-> FALSE] /\ trace = <<>>
    /\ pc = "ready"
    /\ calls = 0 /\ previous = <<>> /\ ctor_args = NoArgs

(* MLFQScheduler(num_queues=3, boost_interval=bi) and a job list W *)
MLFQConstructed(W, bi) ==
    /\ engine = "MLFQ"
    /\ input \in W
    /\ num_queues = DefaultNumQueues
    /\ time_quantum = DefaultQuantum(DefaultNumQueues)
    /\ time_allotments = DefaultAllotments(DefaultQuantum(DefaultNumQueues))
    /\ boost_interval = bi
    /\ time_since_boost = 0
    /\ queues = EmptyQueues(DefaultNumQueues)
    /\ io_jobs = <<>> /\ current_job = 0 /\ quantum_remaining = 0
    /\ cpu_time_used = 0 /\ timeline = <<>> /\ jobs_returned = <<>>
    /\ snapshots = <<>>
    /\ NotStarted /\ NoCfs /\ NoBase

InitMLFQ == \E bi \in {0, BoostPeriod} : MLFQConstructed(Workloads(IoJobParams), bi)

(* schedule(), lines 78-87: the deep copy and the locals *)
MLFQSchedule ==
    /\ engine = "MLFQ" /\ pc = "ready"
    /\ jobs' = DeepCopy(input)
    /\ current_time' = 0
    /\ completed' = <<>>
    /\ waiting_jobs' = SortedByArrival(input)
    /\ io_jobs' = <<>>
    /\ current_job' = 0
    /\ quantum_remaining' = 0
    /\ cpu_time_used' = 0
    /\ timeline' = <<>>
    /\ snapshots' = <<>>
    /\ pc' = "top"
    /\ UNCHANGED <<callVars, engine, input, metrics, trace, mlfqConfig, time_since_boost,
                   queues, jobs_returned, cfsVars, baseVars>>

(* line 127 reads self.time_allotments[current_job.priority]: an IndexError
   when the list has no entry for the level *)
AllotmentMissing(job, allot) == job.priority + 1 > Len(allot)

(* line 143 reads self.time_quantum[priority]: an IndexError likewise *)
QuantumMissing(l, quantum) == l > Len(quantum)

(* One pass of the loop, lines 89-135: boost, I/O returns, arrivals, retire;
   an IndexError of the demotion test leaves schedule() at that point *)
MLFQAdmit ==
    /\ engine = "MLFQ" /\ pc = "top"
    /\ LoopCondition(waiting_jobs, queues, current_job, io_jobs)
    /\ LET boost == BoostDue(boost_interval, time_since_boost)
           q1 == IF boost THEN BoostQueues(queues) ELSE queues
           j1 == IF boost THEN BoostJobs(jobs, BoostTargets(queues, current_job))
                          ELSE jobs
           ret == IoReturned(io_jobs, j1, current_time)
           j2 == [i \in DOMAIN j1 |->
                     IF i \in Range(ret) THEN [j1[i] EXCEPT !.waiting_for_io = FALSE]
                                         ELSE j1[i]]
           q2 == EnqueueAll(q1, j2, ret)
           io2 == SelectSeq(io_jobs, LAMBDA j : j \notin Range(ret))
           arr == ArrivedPrefix(waiting_jobs, j2, current_time)
           j3 == [i \in DOMAIN j2 |->
                     IF i \in Range(arr) THEN Admitted(j2[i]) ELSE j2[i]]
           q3 == [q2 EXCEPT ![1] = @ \o arr]
           kind == RetireKind(j3, current_job, quantum_remaining)
           raised == IF kind = "requeue"
                     THEN AllotmentMissing(j3[current_job], time_allotments)
                     ELSE FALSE
           back == Requeued(j3[current_job], time_allotments, num_queues)
       IN  /\ time_since_boost' = IF boost THEN 0 ELSE time_since_boost
           /\ jobs_returned' = ret
           /\ waiting_jobs' = SubSeq(waiting_jobs, Len(arr) + 1, Len(waiting_jobs))
           /\ jobs' = CASE kind = "completed" ->
                             [j3 EXCEPT ![current_job].completion_time = current_time]
                        [] kind = "requeue" /\ ~raised ->
                             [j3 EXCEPT ![current_job] = back]
                        [] OTHER -> j3
           /\ completed' = IF kind = "completed" THEN Append(completed, current_job)
                                                  ELSE completed
           /\ io_jobs' = IF kind = "io" THEN Append(io2, current_job) ELSE io2
           /\ queues' = IF kind = "requeue" /\ ~raised
                        THEN [q3 EXCEPT ![back.priority + 1] = Append(@, current_job)]
                        ELSE q3
           /\ current_job' = IF kind = "none" THEN current_job
                              ELSE IF raised THEN current_job ELSE 0
           /\ cpu_time_used' = IF kind = "none" THEN cpu_time_used
                                ELSE IF raised THEN cpu_time_used ELSE 0
           /\ pc' = IF raised THEN "error" ELSE "select"
    /\ UNCHANGED <<callVars, engine, input, current_time, metrics, trace, mlfqConfig,
                   quantum_remaining, timeline, snapshots, cfsVars, baseVars>>

(* Lines 137-147: select the next job when the CPU is free; the job is popped
   before the quantum of its level is read *)
MLFQSelect ==
    /\ engine = "MLFQ" /\ pc = "select"
    /\ LET l == SelectLevel(queues)
           j == Head(queues[l])
       IN  IF current_job = 0 /\ l # 0
           THEN /\ current_job' = j
                /\ queues' = [queues EXCEPT ![l] = Tail(@)]
                /\ IF QuantumMissing(l, time_quantum)
                   THEN /\ pc' = "error"
                        /\ UNCHANGED <<quantum_remaining, cpu_time_used, jobs>>
                   ELSE /\ quantum_remaining' = time_quantum[l]
                        /\ cpu_time_used' = 0
                        /\ jobs' = IF jobs[j].start_time = UNSET
                                   THEN [jobs EXCEPT ![j].start_time = current_time]
                                   ELSE jobs
                        /\ pc' = "execute"
           ELSE /\ pc' = "execute"
                /\ UNCHANGED <<current_job, queues, quantum_remaining,
                               cpu_time_used, jobs>>
    /\ UNCHANGED <<callVars, engine, input, current_time, completed, waiting_jobs, metrics,
                   trace, mlfqConfig, time_since_boost, io_jobs, timeline,
                   jobs_returned, snapshots, cfsVars, baseVars>>

(* What the execute step of a tick finds, before it runs: every job's level
   and time at that level, the I/O-wait list, the job on the CPU and whether
   this tick selected it (cpu_time_used is 0 exactly for a job dispatched this
   tick), and the ticks since the last boost (0 in a tick that boosted) *)
Snapshot ==
    [ time          |-> current_time,
      priority      |-> [j \in DOMAIN jobs |-> jobs[j].priority],
      time_in_queue |-> [j \in DOMAIN jobs |-> jobs[j].time_in_queue],
      in_io         |-> Range(io_jobs),
      running       |-> current_job,
      dispatched    |-> current_job # 0 /\ cpu_time_used = 0,
      since_boost   |-> time_since_boost ]

(* the execute step recording nothing for a tick on which the CPU is idle *)
MLFQExecute_SkipIdle ==
    /\ engine = "MLFQ" /\ pc = "execute"
    /\ LET job == jobs[current_job]
           total_cpu_time == job.burst_time - job.remaining_time
       IN  IF current_job # 0
           THEN IF needs_io(job, total_cpu_time)
                THEN /\ jobs' = [jobs EXCEPT ![current_job] = Yielded(job, current_time)]
                     /\ timeline' = Append(timeline,
                            <<current_time, job.job_id, job.priority, "IO">>)
                     /\ UNCHANGED <<quantum_remaining, cpu_time_used>>
                ELSE /\ jobs' = [jobs EXCEPT ![current_job] = Executed(job)]
                     /\ quantum_remaining' = quantum_remaining - 1
                     /\ cpu_time_used' = cpu_time_used + 1
                     /\ timeline' = Append(timeline,
                            <<current_time, job.job_id, job.priority, "RUNNING">>)
           ELSE UNCHANGED <<jobs, quantum_remaining, cpu_time_used, timeline>>
    /\ snapshots' = Append(snapshots, Snapshot)
    /\ current_time' = current_time + 1
    /\ time_since_boost' = time_since_boost + 1
    /\ pc' = "top"
    /\ UNCHANGED <<callVars, engine, input, completed, waiting_jobs, metrics, trace,
                   mlfqConfig, queues, io_jobs, current_job, jobs_returned,
                   cfsVars, baseVars>>

(* Lines 149-171: execute one time unit (or yield for I/O, or idle), advance *)
MLFQExecute ==
    /\ engine = "MLFQ" /\ pc = "execute"
    /\ LET job == jobs[current_job]
           total_cpu_time == job.burst_time - job.remaining_time
       IN  IF current_job # 0
           THEN IF needs_io(job, total_cpu_time)
                THEN /\ jobs' = [jobs EXCEPT ![current_job] = Yielded(job, current_time)]
                     /\ timeline' = Append(timeline,
                            <<current_time, job.job_id, job.priority, "IO">>)
                     /\ UNCHANGED <<quantum_remaining, cpu_time_used>>
                ELSE /\ jobs' = [jobs EXCEPT ![current_job] = Executed(job)]
                     /\ quantum_remaining' = quantum_remaining - 1
                     /\ cpu_time_used' = cpu_time_used + 1
                     /\ timeline' = Append(timeline,
                            <<current_time, job.job_id, job.priority, "RUNNING">>)
           ELSE /\ timeline' = Append(timeline, <<current_time, UNSET, UNSET, "IDLE">>)
                /\ UNCHANGED <<jobs, quantum_remaining, cpu_time_used>>
    /\ snapshots' = Append(snapshots, Snapshot)
    /\ current_time' = current_time + 1
    /\ time_since_boost' = time_since_boost + 1
    /\ pc' = "top"
    /\ UNCHANGED <<callVars, engine, input, completed, waiting_jobs, metrics, trace,
                   mlfqConfig, queues, io_jobs, current_job, jobs_returned,
                   cfsVars, baseVars>>

(* Lines 173-176: the loop has ended; compute the metrics and return *)
MLFQFinish ==
    /\ engine = "MLFQ" /\ pc = "top"
    /\ ~LoopCondition(waiting_jobs, queues, current_job, io_jobs)
    /\ metrics' = calculate_metrics(jobs, completed)
    /\ pc' = IF Len(completed) = 0 THEN "error" ELSE "done"
    /\ UNCHANGED <<callVars, engine, input, jobs, current_time, completed, waiting_jobs,
                   trace, mlfqConfig, mlfqVars, cfsVars, baseVars>>

NextMLFQ == MLFQSchedule \/ MLFQAdmit \/ MLFQSelect \/ MLFQExecute \/ MLFQFinish

SpecMLFQ == InitMLFQ /\ [][NextMLFQ]_vars

(* MLFQ on CPU-bound jobs constructed with any priority and time_in_queue *)
InitMLFQCtor ==
    \E bi \in {0, BoostPeriod} : MLFQConstructed(Workloads(CtorJobParams), bi)

SpecMLFQCtor == InitMLFQCtor /\ [][NextMLFQ]_vars

(* test_priority_boost: MLFQScheduler(num_queues=3, boost_interval=10), on
   jobs that arrive late enough to be demoted shortly before tick 10; an I/O
   lasts at least 2 ticks *)
BoostTen == 10
LateArrivalFrom == 5

LateJobParams ==
    UNION {{<<a, b, 0, 0, io[2], io[1]>> :
               a \in LateArrivalFrom..(LateArrivalFrom + MaxArrival - 1),
               io \in IoParamsFrom(2, b)} : b \in 1..MaxBurst}

InitBoost10 == MLFQConstructed(Workloads(LateJobParams), BoostTen)

SpecBoost10 == InitBoost10 /\ [][NextMLFQ]_vars

(* Three short jobs, each CPU-bound or with one 1-tick I/O after its first
   unit of CPU: enough for an I/O return, an arrival and a requeue to meet at
   one level in one tick *)
MaxTrioBurst == 3
MaxTrioArrival == 3

TrioJobParams ==
    {<<a, b, 0, 0, DefaultIoDuration, <<>> >> :
        a \in 0..MaxTrioArrival, b \in 1..MaxTrioBurst}
        \cup {<<a, b, 0, 0, 1, <<1>> >> : a \in 0..MaxTrioArrival, b \in 2..MaxTrioBurst}

InitRoundRobin ==
    \E bi \in {0, BoostPeriod} :
        MLFQConstructed({Workload(ps) : ps \in [1..3 -> TrioJobParams]}, bi)

SpecRoundRobin == InitRoundRobin /\ [][NextMLFQ]_vars

(* test_priority_demotion: one CPU-bound job, MLFQScheduler(num_queues=3,
   boost_interval=None) *)
MaxLongBurst == 15

LongJobParams ==
    {<<a, b, 0, 0, DefaultIoDuration, <<>> >> :
        a \in 0..MaxArrival, b \in 1..MaxLongBurst}

InitDemotion ==
    MLFQConstructed({Workload(<<ps>>) : ps \in LongJobParams}, 0)

SpecDemotion == InitDemotion /\ [][NextMLFQ]_vars

(* One job long enough to be demoted and to use up the allotment of level 1,
   CPU-bound or with I/O, with and without boost *)
MaxLongIoBurst == 8

LongIoJobParams ==
    UNION {{<<a, b, 0, 0, io[2], io[1]>> : a \in 0..MaxArrival, io \in IoParams(b)} :
              b \in 1..MaxLongIoBurst}

InitLongIo ==
    \E bi \in {0, BoostPeriod} :
        MLFQConstructed({Workload(<<ps>>) : ps \in LongIoJobParams}, bi)

SpecLongIo == InitLongIo /\ [][NextMLFQ]_vars

(* A job with up to MaxOffsets I/O offsets, alone or followed in the list by
   a CPU-bound job, with and without boost *)
MaxOffsets == 2

OffsetChoices(burst) ==
    {SetToSeq(S) : S \in {T \in SUBSET (0..(burst - 1)) : Cardinality(T) <= MaxOffsets}}

OffsetJobParams ==
    UNION {{<<a, b, 0, 0, DefaultIoDuration, <<>> >> : a \in 0..MaxArrival}
             \cup {<<a, b, 0, 0, d, ops>> :
                      a \in 0..MaxArrival, d \in 1..MaxIoDuration,
                      ops \in OffsetChoices(b) \ {<<>>}} :
              b \in 1..MaxBurst}

InitOffsets ==
    \E bi \in {0, BoostPeriod} :
        MLFQConstructed({Workload(<<p>>) : p \in OffsetJobParams}
                           \cup {Workload(<<p, q>>) :
                                    p \in OffsetJobParams, q \in PlainJobParams}, bi)

SpecOffsets == InitOffsets /\ [][NextMLFQ]_vars

(* The caller's construction calls, with arguments of any kind: Job(...) with
   a burst_time from -1 up and an I/O offset up to burst_time + 1, and
   MLFQScheduler(num_queues, time_quantum, time_allotments, boost_interval)
   with lists of any length.  An argument left at None is <<>>, a given list
   L is <<L>>. *)
ConfigNumQueues == 2
MaxConfigLen == 3
MaxConfigValue == 2
MaxConfigBurst == 3

ConfigJobParams ==
    UNION {{<<0, b, 0, 0, DefaultIoDuration, <<>> >>}
             \cup {<<0, b, 0, 0, d, <<o>> >> : o \in 0..(b + 1), d \in 1..MaxIoDuration} :
              b \in (0 - 1)..MaxConfigBurst}

ConfigLists == UNION {[1..n -> 1..MaxConfigValue] : n \in 0..MaxConfigLen}

ConfigArgs ==
    [ jobs            : [1..1 -> ConfigJobParams],
      num_queues      : {ConfigNumQueues},
      time_quantum    : {<<>>} \cup {<<L>> : L \in ConfigLists},
      time_allotments : {<<>>} \cup {<<L>> : L \in ConfigLists},
      boost_interval  : {0, BoostPeriod} ]

(* nothing is constructed yet *)
InitConfig ==
    /\ engine = "MLFQ" /\ input = <<>> /\ pc = "new"
    /\ ctor_args \in ConfigArgs
    /\ jobs = <<>> /\ current_time = 0 /\ completed = <<>>
    /\ waiting_jobs = <<>> /\ metrics = [error |-> FALSE] /\ trace = <<>>
    /\ calls = 0 /\ previous = <<>>
    /\ NoMlfq /\ NoCfs /\ NoBase

(* The Job(...) calls (job.py 6-28) and MLFQScheduler.__init__ (mlfq.py
   64-74): every argument is stored as given, none is validated *)
MLFQConstruct ==
    /\ engine = "MLFQ" /\ pc = "new"
    /\ input' = Workload(ctor_args.jobs)
    /\ num_queues' = ctor_args.num_queues
    /\ queues' = EmptyQueues(ctor_args.num_queues)
    /\ time_quantum' = IF ctor_args.time_quantum = <<>>
                       THEN DefaultQuantum(ctor_args.num_queues)
                       ELSE ctor_args.time_quantum[1]
    /\ time_allotments' = IF ctor_args.time_allotments = <<>>
                          THEN DefaultAllotments(time_quantum')
                          ELSE ctor_args.time_allotments[1]
    /\ boost_interval' = ctor_args.boost_interval
    /\ time_since_boost' = 0
    /\ pc' = "ready"
    /\ UNCHANGED <<callVars, engine, jobs, current_time, completed, waiting_jobs,
                   metrics, trace, io_jobs, current_job, quantum_remaining,
                   cpu_time_used, timeline, jobs_returned, snapshots, cfsVars,
                   baseVars>>

NextConfig == MLFQConstruct \/ NextMLFQ

SpecConfig == InitConfig /\ [][NextConfig]_vars


---------------------------------------------------------------------------
(* Python's min(xs, key=...): the position of the first minimal key *)
FirstMinIndex(keys) ==
    CHOOSE i \in 1..Len(keys) :
        /\ \A k \in 1..Len(keys) : keys[i] <= keys[k]
        /\ \A k \in 1..(i - 1) : keys[k] > keys[i]

MinOfSet(S) == CHOOSE x \in S : \A y \in S : x <= y

(* The locals every schedule() starts with *)
StartRun ==
    /\ jobs' = DeepCopy(input)
    /\ current_time' = 0
    /\ completed' = <<>>
    /\ pc' = "top"

(* a return that gives averages of zero for an empty completed list *)
Return_ZeroOnEmpty ==
    /\ metrics' = IF Len(completed) = 0
                  THEN [ error |-> FALSE,
                         turnaround_times |-> <<>>,
                         response_times |-> <<>>,
                         avg_turnaround |-> <<0, 1>>,
                         avg_response |-> <<0, 1>> ]
                  ELSE calculate_metrics(jobs, completed)
    /\ pc' = "done"

(* return completed, MetricCalculator.calculate_metrics(completed) *)
Return ==
    /\ metrics' = calculate_metrics(jobs, completed)
    /\ pc' = IF Len(completed) = 0 THEN "error" ELSE "done"

---------------------------------------------------------------------------
(* cfs.py: CFSScheduler *)

(* a newcomer that always starts at vruntime 0 *)
MinVruntime_Zero(vr) == 0

(* a newcomer charged with all the CPU time handed out so far *)
MinVruntime_Total(vr) ==
    IF DOMAIN vr = {} THEN 0
    ELSE LET hi == CHOOSE x \in DOMAIN vr : \A y \in DOMAIN vr : y <= x
         IN  SeqSum([k \in 1..hi |-> IF k \in DOMAIN vr THEN vr[k] ELSE 0])

(* min(vruntime.values()) if vruntime else 0 *)
MinVruntime(vr) ==
    IF DOMAIN vr = {} THEN 0 ELSE MinOfSet({vr[k] : k \in DOMAIN vr})

(* vruntime[job.job_id] = min_vruntime *)
SetVruntime(vr, id, v) ==
    [k \in DOMAIN vr \cup {id} |-> IF k = id THEN v ELSE vr[k]]

(* the completion step without `del vruntime[job.job_id]` *)
DelVruntime_Keep(vr, id) == vr

(* del vruntime[job.job_id] *)
DelVruntime(vr, id) == [k \in DOMAIN vr \ {id} |-> vr[k]]

(* the arrival loop: each popped job gets the current minimum vruntime *)
RECURSIVE AdmitVruntime(_, _, _)
AdmitVruntime(vr, js, s) ==
    IF s = <<>> THEN vr
    ELSE AdmitVruntime(SetVruntime(vr, js[Head(s)].job_id, MinVruntime(vr)),
                       js, Tail(s))

(* the pick taking the last of the jobs tied at the minimum *)
PickCfs_LastTie(ready, vr, js) ==
    LET keys == [k \in 1..Len(ready) |-> vr[js[ready[k]].job_id]]
    IN  ready[CHOOSE k \in 1..Len(ready) :
                  /\ \A m \in 1..Len(ready) : keys[k] <= keys[m]
                  /\ \A m \in (k + 1)..Len(ready) : keys[k] < keys[m]]

(* min(ready_jobs, key=lambda j: vruntime[j.job_id]) *)
PickCfs(ready, vr, js) ==
    ready[FirstMinIndex([k \in 1..Len(ready) |-> vr[js[ready[k]].job_id]])]

CFSConstructed(W) ==
    /\ engine = "CFS"
    /\ input \in W
    /\ NotStarted /\ NoMlfq /\ NoCfs /\ NoBase

InitCFS == CFSConstructed(WorkloadsOf(PlainJobParams, MaxPlainJobs))

(* schedule(), lines 57-72 *)
CFSSchedule ==
    /\ engine = "CFS" /\ pc = "ready"
    /\ StartRun
    /\ waiting_jobs' = SortedByArrival(input)
    /\ vruntime' = <<>>
    /\ ready_jobs' = <<>>
    /\ UNCHANGED <<callVars, engine, input, metrics, trace, mlfqConfig, mlfqVars, baseVars>>

(* Lines 77-98: arrivals at the top of the loop, fast-forward when idle *)
CFSAdmit ==
    /\ engine = "CFS" /\ pc = "top"
    /\ ~(waiting_jobs = <<>> /\ ready_jobs = <<>>)
    /\ LET arr == ArrivedPrefix(waiting_jobs, jobs, current_time)
           w1 == SubSeq(waiting_jobs, Len(arr) + 1, Len(waiting_jobs))
           r1 == ready_jobs \o arr
       IN  /\ vruntime' = AdmitVruntime(vruntime, jobs, arr)
           /\ ready_jobs' = r1
           /\ waiting_jobs' = w1
           /\ current_time' = IF r1 = <<>> THEN jobs[Head(w1)].arrival_time
                                           ELSE current_time
           /\ pc' = IF r1 = <<>> THEN "top" ELSE "run"
    /\ UNCHANGED <<callVars, engine, input, jobs, completed, metrics, trace, mlfqConfig,
                   mlfqVars, baseVars>>

(* Lines 101-136: pick, execute one time unit, arrivals, completion *)
CFSRun ==
    /\ engine = "CFS" /\ pc = "run"
    /\ LET j == PickCfs(ready_jobs, vruntime, jobs)
           id == jobs[j].job_id
           j1 == [jobs EXCEPT ![j].start_time =
                                  IF @ = UNSET THEN current_time ELSE @,
                              ![j].remaining_time = @ - 1]
           t1 == current_time + 1
           v1 == [vruntime EXCEPT ![id] = @ + 1]
           arr == ArrivedPrefix(waiting_jobs, j1, t1)
           v2 == AdmitVruntime(v1, j1, arr)
           r2 == ready_jobs \o arr
           fin == j1[j].remaining_time = 0
       IN  /\ current_time' = t1
           /\ waiting_jobs' = SubSeq(waiting_jobs, Len(arr) + 1, Len(waiting_jobs))
           /\ jobs' = IF fin THEN [j1 EXCEPT ![j].completion_time = t1] ELSE j1
           /\ completed' = IF fin THEN Append(completed, j) ELSE completed
           /\ ready_jobs' = IF fin THEN RemoveFirst(r2, j) ELSE r2
           /\ vruntime' = IF fin THEN DelVruntime(v2, id) ELSE v2
           /\ trace' = Append(trace, <<current_time, j, 1>>)
    /\ pc' = "top"
    /\ UNCHANGED <<callVars, engine, input, metrics, mlfqConfig, mlfqVars, baseVars>>

(* Line 139 *)
CFSFinish ==
    /\ engine = "CFS" /\ pc = "top"
    /\ waiting_jobs = <<>> /\ ready_jobs = <<>>
    /\ Return
    /\ UNCHANGED <<callVars, engine, input, jobs, current_time, completed, waiting_jobs,
                   trace, mlfqConfig, mlfqVars, cfsVars, baseVars>>

NextCFS == CFSSchedule \/ CFSAdmit \/ CFSRun \/ CFSFinish

SpecCFS == InitCFS /\ [][NextCFS]_vars


---------------------------------------------------------------------------
(* baselines.py: FIFO, SJF, STCF, Round Robin *)

(* [j for j in remaining if j.arrival_time <= current_time] *)
Available(rem, js, t) == SelectSeq(rem, LAMBDA j : js[j].arrival_time <= t)

(* min(j.arrival_time for j in remaining) *)
NextArrival(rem, js) == MinOfSet({js[j].arrival_time : j \in Range(rem)})

(* the pick taking the first available job whatever its burst_time *)
PickSjf_First(avail, js) == avail[1]

(* min(available, key=lambda x: x.burst_time) *)
PickSjf(avail, js) ==
    avail[FirstMinIndex([k \in 1..Len(avail) |-> js[avail[k]].burst_time])]

(* min(available, key=lambda x: x.remaining_time) *)
PickStcf(avail, js) ==
    avail[FirstMinIndex([k \in 1..Len(avail) |-> js[avail[k]].remaining_time])]

(* a slice that runs the job to its end *)
ExecTime_WholeJob(q, job) == job.remaining_time

(* exec_time = min(self.time_quantum, job.remaining_time) *)
ExecTime(q, job) == Min2(q, job.remaining_time)

BaseConstructed(e, W, q) ==
    /\ engine = e
    /\ input \in W
    /\ rr_time_quantum = q
    /\ sorted_jobs = <<>> /\ loop_i = 0 /\ remaining = <<>> /\ ready_queue = <<>>
    /\ NotStarted /\ NoMlfq /\ NoCfs

InitBase ==
    \E e \in {"FIFO", "SJF", "STCF", "RR"} :
        BaseConstructed(e, WorkloadsOf(PlainJobParams, MaxPlainJobs),
                        IF e = "RR" THEN DefaultRRQuantum ELSE 0)

(* FIFOScheduler.schedule, lines 10-14: jobs.sort(key=arrival_time) *)
FIFOSchedule ==
    /\ engine = "FIFO" /\ pc = "ready"
    /\ StartRun
    /\ sorted_jobs' = SortedByArrival(input)
    /\ loop_i' = 1
    /\ UNCHANGED <<callVars, engine, input, waiting_jobs, metrics, trace, mlfqConfig,
                   mlfqVars, cfsVars, remaining, ready_queue, rr_time_quantum>>

(* FIFOScheduler.schedule, lines 16-23: one pass of `for job in jobs` *)
FIFOStep ==
    /\ engine = "FIFO" /\ pc = "top"
    /\ loop_i <= Len(sorted_jobs)
    /\ LET j == sorted_jobs[loop_i]
           t == IF current_time < jobs[j].arrival_time THEN jobs[j].arrival_time
                                                       ELSE current_time
       IN  /\ current_time' = t + jobs[j].burst_time
           /\ jobs' = [jobs EXCEPT ![j].start_time = t,
                                   ![j].completion_time = t + jobs[j].burst_time]
           /\ completed' = Append(completed, j)
           /\ trace' = Append(trace, <<t, j, jobs[j].burst_time>>)
    /\ loop_i' = loop_i + 1
    /\ UNCHANGED <<callVars, engine, input, waiting_jobs, metrics, pc, mlfqConfig, mlfqVars,
                   cfsVars, sorted_jobs, remaining, ready_queue, rr_time_quantum>>

(* SJFScheduler.schedule / STCFScheduler.schedule: remaining = jobs[:] *)
SJFSchedule ==
    /\ engine \in {"SJF", "STCF"} /\ pc = "ready"
    /\ StartRun
    /\ remaining' = [i \in 1..Len(input) |-> i]
    /\ UNCHANGED <<callVars, engine, input, waiting_jobs, metrics, trace, mlfqConfig,
                   mlfqVars, cfsVars, sorted_jobs, loop_i, ready_queue,
                   rr_time_quantum>>

(* SJFScheduler.schedule, lines 37-52: one pass of `while remaining` *)
SJFStep ==
    /\ engine = "SJF" /\ pc = "top"
    /\ remaining # <<>>
    /\ LET avail == Available(remaining, jobs, current_time)
           j == PickSjf(avail, jobs)
       IN  IF avail = <<>>
           THEN /\ current_time' = NextArrival(remaining, jobs)
                /\ UNCHANGED <<jobs, completed, remaining, trace>>
           ELSE /\ remaining' = RemoveFirst(remaining, j)
                /\ current_time' = current_time + jobs[j].burst_time
                /\ jobs' = [jobs EXCEPT
                              ![j].start_time = current_time,
                              ![j].completion_time = current_time + jobs[j].burst_time]
                /\ completed' = Append(completed, j)
                /\ trace' = Append(trace, <<current_time, j, jobs[j].burst_time>>)
    /\ UNCHANGED <<callVars, engine, input, waiting_jobs, metrics, pc, mlfqConfig, mlfqVars,
                   cfsVars, sorted_jobs, loop_i, ready_queue, rr_time_quantum>>

(* STCFScheduler.schedule, lines 66-87: one pass of `while remaining` *)
STCFStep ==
    /\ engine = "STCF" /\ pc = "top"
    /\ remaining # <<>>
    /\ LET avail == Available(remaining, jobs, current_time)
           j == PickStcf(avail, jobs)
           j1 == [jobs EXCEPT ![j].start_time =
                                  IF @ = UNSET THEN current_time ELSE @,
                              ![j].remaining_time = @ - 1]
           fin == j1[j].remaining_time = 0
       IN  IF avail = <<>>
           THEN /\ current_time' = NextArrival(remaining, jobs)
                /\ UNCHANGED <<jobs, completed, remaining, trace>>
           ELSE /\ current_time' = current_time + 1
                /\ jobs' = IF fin THEN [j1 EXCEPT ![j].completion_time = current_time + 1]
                                  ELSE j1
                /\ completed' = IF fin THEN Append(completed, j) ELSE completed
                /\ remaining' = IF fin THEN RemoveFirst(remaining, j) ELSE remaining
                /\ trace' = Append(trace, <<current_time, j, 1>>)
    /\ UNCHANGED <<callVars, engine, input, waiting_jobs, metrics, pc, mlfqConfig, mlfqVars,
                   cfsVars, sorted_jobs, loop_i, ready_queue, rr_time_quantum>>

(* RoundRobinScheduler.schedule, lines 98-102 *)
RRSchedule ==
    /\ engine = "RR" /\ pc = "ready"
    /\ StartRun
    /\ ready_queue' = <<>>
    /\ waiting_jobs' = SortedByArrival(input)
    /\ UNCHANGED <<callVars, engine, input, metrics, trace, mlfqConfig, mlfqVars, cfsVars,
                   sorted_jobs, loop_i, remaining, rr_time_quantum>>

(* RoundRobinScheduler.schedule, lines 104-131: one pass of the loop *)
RRStep ==
    /\ engine = "RR" /\ pc = "top"
    /\ ~(waiting_jobs = <<>> /\ ready_queue = <<>>)
    /\ LET arr == ArrivedPrefix(waiting_jobs, jobs, current_time)
           w1 == SubSeq(waiting_jobs, Len(arr) + 1, Len(waiting_jobs))
           q1 == ready_queue \o arr
           j == Head(q1)
           exec_time == ExecTime(rr_time_quantum, jobs[j])
           j1 == [jobs EXCEPT ![j].start_time =
                                  IF @ = UNSET THEN current_time ELSE @,
                              ![j].remaining_time = @ - exec_time]
           t1 == current_time + exec_time
           arr2 == ArrivedPrefix(w1, j1, t1)
           q2 == Tail(q1) \o arr2
       IN  IF q1 = <<>>
           THEN /\ current_time' = jobs[Head(w1)].arrival_time
                /\ waiting_jobs' = w1
                /\ ready_queue' = q1
                /\ UNCHANGED <<jobs, completed, trace>>
           ELSE /\ current_time' = t1
                /\ waiting_jobs' = SubSeq(w1, Len(arr2) + 1, Len(w1))
                /\ ready_queue' = IF j1[j].remaining_time > 0 THEN Append(q2, j) ELSE q2
                /\ jobs' = IF j1[j].remaining_time > 0 THEN j1
                           ELSE [j1 EXCEPT ![j].completion_time = t1]
                /\ completed' = IF j1[j].remaining_time > 0 THEN completed
                                ELSE Append(completed, j)
                /\ trace' = Append(trace, <<current_time, j, exec_time>>)
    /\ UNCHANGED <<callVars, engine, input, metrics, pc, mlfqConfig, mlfqVars, cfsVars,
                   sorted_jobs, loop_i, remaining, rr_time_quantum>>

(* the loop test of each baseline *)
BaseLooping ==
    CASE engine = "FIFO" -> loop_i <= Len(sorted_jobs)
      [] engine = "RR" -> ~(waiting_jobs = <<>> /\ ready_queue = <<>>)
      [] OTHER -> remaining # <<>>

(* return completed, MetricCalculator.calculate_metrics(completed) *)
BaseFinish ==
    /\ engine \in {"FIFO", "SJF", "STCF", "RR"} /\ pc = "top"
    /\ ~BaseLooping
    /\ Return
    /\ UNCHANGED <<callVars, engine, input, jobs, current_time, completed, waiting_jobs,
                   trace, mlfqConfig, mlfqVars, cfsVars, baseVars>>

NextBase ==
    \/ FIFOSchedule \/ FIFOStep
    \/ SJFSchedule \/ SJFStep \/ STCFStep
    \/ RRSchedule \/ RRStep
    \/ BaseFinish

SpecBase == InitBase /\ [][NextBase]_vars

(* main.py, Test 1: Job(1,0,10), Job(2,0,5), Job(3,0,8) under FIFO, and the
   same three bursts with other arrival times and list orders *)
FifoExampleParams ==
    {<<a, b, 0, 0, DefaultIoDuration, <<>> >> : a \in 0..MaxArrival, b \in {5, 8, 10}}

InitFifoExample ==
    BaseConstructed("FIFO", {Workload(ps) : ps \in [1..3 -> FifoExampleParams]}, 0)

NextFifo == FIFOSchedule \/ FIFOStep \/ BaseFinish

SpecFifoExample == InitFifoExample /\ [][NextFifo]_vars

(* Round Robin with quantum 2 on jobs of burst 1, 3 or 10: shorter than,
   longer than and a multiple of the quantum *)
RRExampleParams ==
    {<<a, b, 0, 0, DefaultIoDuration, <<>> >> : a \in 0..MaxArrival, b \in {1, 3, 10}}

InitRRExample ==
    BaseConstructed("RR", WorkloadsOf(RRExampleParams, MaxPlainJobs), DefaultRRQuantum)

NextRR == RRSchedule \/ RRStep \/ BaseFinish

SpecRRExample == InitRRExample /\ [][NextRR]_vars

---------------------------------------------------------------------------
(* Any engine *)

Init == InitMLFQ \/ InitCFS \/ InitBase

Next == NextMLFQ \/ NextCFS \/ NextBase

Spec == Init /\ [][Next]_vars

(* What schedule() returns: the completed Job objects in completion order and
   the metrics dict, which for MLFQ also carries the timeline *)
Result ==
    [ completed |-> [k \in 1..Len(completed) |-> jobs[completed[k]]],
      metrics   |-> metrics,
      timeline  |-> timeline ]

(* The caller calls schedule() again on the same instance with the same job
   list: the locals of the call that returned are gone, the attributes of the
   instance (self.queues, self.time_since_boost, the configuration) stay *)
CallAgain ==
    /\ pc = "done" /\ calls = 0
    /\ calls' = 1
    /\ previous' = Result
    /\ jobs' = <<>> /\ current_time' = 0 /\ completed' = <<>>
    /\ waiting_jobs' = <<>> /\ metrics' = [error |-> FALSE] /\ trace' = <<>>
    /\ io_jobs' = <<>> /\ current_job' = 0 /\ quantum_remaining' = 0
    /\ cpu_time_used' = 0 /\ timeline' = <<>> /\ jobs_returned' = <<>>
    /\ snapshots' = <<>>
    /\ vruntime' = <<>> /\ ready_jobs' = <<>>
    /\ sorted_jobs' = <<>> /\ loop_i' = 0 /\ remaining' = <<>> /\ ready_queue' = <<>>
    /\ pc' = "ready"
    /\ UNCHANGED <<engine, input, mlfqConfig, time_since_boost, queues,
                   rr_time_quantum, ctor_args>>

NextTwice == Next \/ CallAgain

SpecTwice == Init /\ [][NextTwice]_vars

(* schedule() is a plain sequential loop: a step that can be taken is taken *)
FairSpec == Spec /\ WF_vars(Next)


---------------------------------------------------------------------------
(* Properties *)

Terminated == pc \in {"done", "error"}

JobIds == 1..Len(input)

(* the k-th entry of the MLFQ timeline: <<time, job_id, priority, status>> *)
EntryTime(e) == e[1]
EntryJob(e) == e[2]
EntryPriority(e) == e[3]
EntryStatus(e) == e[4]

(* C1: for every policy, every job of the completed list has
   arrival_time <= start_time <= completion_time and remaining_time = 0. *)
C1_CompletedJobsWellFormed ==
    \A k \in 1..Len(completed) :
        LET j == jobs[completed[k]]
        IN  /\ j.arrival_time <= j.start_time
            /\ j.start_time <= j.completion_time
            /\ j.remaining_time = 0

(* no job is waiting, queued, running, ready or in I/O wait *)
NothingPending ==
    /\ waiting_jobs = <<>> /\ io_jobs = <<>> /\ current_job = 0
    /\ \A l \in 1..Len(queues) : queues[l] = <<>>
    /\ ready_jobs = <<>> /\ remaining = <<>> /\ ready_queue = <<>>

(* every submitted job is in the completed list exactly once *)
AllCompletedOnce ==
    /\ Len(completed) = Len(input)
    /\ Range(completed) = JobIds

(* C2: for every valid finite job set every engine's loop terminates, and then
   every submitted job is in the completed list exactly once and none is left
   waiting, queued, running or in I/O wait, with or without a boost interval. *)
C2_TerminatesWithEveryJobCompleted ==
    <>[](Terminated /\ AllCompletedOnce /\ NothingPending)

C2_Witness ==
    /\ pc = "done" /\ engine = "MLFQ" /\ boost_interval # 0
    /\ Len(completed) = 2
    /\ \E k \in 1..Len(timeline) : EntryStatus(timeline[k]) = "IO"
    /\ \E k \in 1..Len(timeline) : EntryStatus(timeline[k]) = "IDLE"


---------------------------------------------------------------------------
(* MLFQ: the steps of one tick, as seen from outside *)

AdmitStep == engine = "MLFQ" /\ pc = "top" /\ pc' = "select"
SelectStep == engine = "MLFQ" /\ pc = "select" /\ pc' = "execute"
ExecuteStep == engine = "MLFQ" /\ pc = "execute" /\ pc' = "top"

(* the state right after the boost, I/O-return, arrival and retire steps *)
AfterAdmit == engine = "MLFQ" /\ pc = "select"

MaxOfSet(S) == CHOOSE x \in S : \A y \in S : y <= x

(* the most recent IO entry of a job in the timeline *)
IoEntries(id) ==
    {k \in 1..Len(timeline) :
        EntryJob(timeline[k]) = id /\ EntryStatus(timeline[k]) = "IO"}

LastIoEntry(id) == timeline[MaxOfSet(IoEntries(id))]

(* C3: in MLFQ, for every I/O yield/return cycle, the level a job has when it
   re-enters the ready queue equals the level it had when it yielded, for
   every configuration, boost interval included. *)
C3_IoCycleKeepsLevel ==
    AfterAdmit =>
        \A k \in 1..Len(jobs_returned) :
            LET j == jobs_returned[k]
            IN  /\ jobs[j].priority = EntryPriority(LastIoEntry(jobs[j].job_id))
                /\ j \in Range(queues[jobs[j].priority + 1])

(* the same without a boost interval: what the code does keep *)
C3_IoCycleKeepsLevelWithoutBoost == (boost_interval = 0) => C3_IoCycleKeepsLevel

(* the tick at which a job's last I/O yield ends: t + io_duration *)
IoDueTime(j) == EntryTime(LastIoEntry(jobs[j].job_id)) + jobs[j].io_duration

(* C6: in MLFQ a job that yields for I/O at tick t with io_duration d >= 1
   re-enters its ready queue at tick t + d, neither earlier nor later. *)
C6_IoBlocksExactlyIoDuration ==
    AfterAdmit =>
        /\ \A j \in Range(jobs_returned) : current_time = IoDueTime(j)
        /\ \A j \in DOMAIN jobs :
              jobs[j].waiting_for_io => current_time < IoDueTime(j)

(* the same for io_duration >= 2 only: what the code does keep *)
C6_IoBlocksExactlyLongIoDuration ==
    AfterAdmit =>
        /\ \A j \in Range(jobs_returned) :
              jobs[j].io_duration >= 2 => current_time = IoDueTime(j)
        /\ \A j \in DOMAIN jobs :
              (jobs[j].waiting_for_io /\ jobs[j].io_duration >= 2)
                  => current_time < IoDueTime(j)

---------------------------------------------------------------------------
(* the snapshot of tick t *)
SnapshotAt(t) == snapshots[t + 1]

(* job j is at a level below the top at tick BoostTen - 1 *)
DemotedBeforeBoost(j) ==
    /\ Len(snapshots) >= BoostTen
    /\ jobs[j].arrival_time < BoostTen
    /\ SnapshotAt(BoostTen - 1).priority[j] > 0

(* the ticks at or after BoostTen at which job j was selected by the select step *)
DispatchesAfterBoost(j) ==
    {k \in 1..Len(snapshots) :
        /\ snapshots[k].time >= BoostTen
        /\ snapshots[k].running = j
        /\ snapshots[k].dispatched}

(* the ticks at or after BoostTen with a timeline entry of job j *)
EntriesAfterBoost(j) ==
    {k \in 1..Len(snapshots) :
        snapshots[k].time >= BoostTen /\ snapshots[k].running = j}

(* C4 as stated: with boost_interval = 10 on a fresh scheduler, any job at
   priority > 0 at tick 9 is at priority 0 at its first dispatch at or after
   tick 10. *)
C4_BoostedAtFirstDispatch ==
    \A j \in DOMAIN jobs :
        (DemotedBeforeBoost(j) /\ DispatchesAfterBoost(j) # {})
            => snapshots[MinOfSet(DispatchesAfterBoost(j))].priority[j] = 0

(* C4 amended: with boost_interval = 10 on a fresh scheduler, any job at
   priority > 0 at tick 9 that is not in the I/O-wait list when tick 10
   begins (it is queued or holds the CPU) is recorded at priority 0 in its
   first timeline entry at or after tick 10. *)
C4_BoostedUnlessInIoWait ==
    \A j \in DOMAIN jobs :
        (/\ DemotedBeforeBoost(j)
         /\ j \notin SnapshotAt(BoostTen - 1).in_io
         /\ EntriesAfterBoost(j) # {})
            => snapshots[MinOfSet(EntriesAfterBoost(j))].priority[j] = 0

(* a job queued at level > 0 through tick 9 has been dispatched after the boost *)
C4_Witness ==
    /\ engine = "MLFQ" /\ boost_interval = BoostTen
    /\ \E j \in DOMAIN jobs :
          /\ DemotedBeforeBoost(j)
          /\ j \notin SnapshotAt(BoostTen - 1).in_io
          /\ SnapshotAt(BoostTen - 1).running # j
          /\ DispatchesAfterBoost(j) # {}
          /\ jobs[j].start_time < BoostTen - 1

---------------------------------------------------------------------------
(* the number of RUNNING entries before entry k: the CPU time used so far *)
ExecutedBefore(k) ==
    Cardinality({i \in 1..(k - 1) : EntryStatus(timeline[i]) = "RUNNING"})

(* level 0 for the first 2 executed ticks, level 1 for the next 4, then 2 *)
DemotionSchedule(n) == IF n < 2 THEN 0 ELSE IF n < 2 + 4 THEN 1 ELSE 2

(* C5: a single job, no I/O, no boost, 3 levels, quantum [1,2,4], allotment
   [2,4,8]: the priority in the timeline never decreases, is 0 for the first 2
   executed ticks, 1 for the next 4 and 2 from then on, and never exceeds 2. *)
C5_DemotionSchedule ==
    (engine = "MLFQ" /\ Len(input) = 1) =>
        /\ \A k \in 1..Len(timeline) :
              EntryStatus(timeline[k]) = "RUNNING" =>
                  /\ EntryPriority(timeline[k]) = DemotionSchedule(ExecutedBefore(k))
                  /\ EntryPriority(timeline[k]) <= 2
        /\ \A k1, k2 \in 1..Len(timeline) :
              (/\ k1 < k2
               /\ EntryStatus(timeline[k1]) = "RUNNING"
               /\ EntryStatus(timeline[k2]) = "RUNNING")
                  => EntryPriority(timeline[k1]) <= EntryPriority(timeline[k2])

(* the burst-15 job of test_priority_demotion has gone through all three levels *)
C5_Witness ==
    /\ pc = "done" /\ Len(input) = 1 /\ input[1].burst_time = MaxLongBurst
    /\ time_quantum = <<1, 2, 4>> /\ time_allotments = <<2, 4, 8>>
    /\ boost_interval = 0
    /\ \A p \in 0..2 : \E k \in 1..Len(timeline) : EntryPriority(timeline[k]) = p


---------------------------------------------------------------------------
(* Select (mlfq.py 137-147) *)

AllQueuesEmpty == \A l \in 1..Len(queues) : queues[l] = <<>>

(* the select step dispatches the head of level l (1-based) *)
DispatchesHeadOf(l) ==
    /\ current_job' = Head(queues[l])
    /\ queues' = [queues EXCEPT ![l] = Tail(@)]
    /\ quantum_remaining' = time_quantum[l]
    /\ jobs' = [jobs EXCEPT ![Head(queues[l])].start_time =
                                IF @ = UNSET THEN current_time ELSE @]

(* C7: MLFQ dispatches only when no job is running; the job dispatched is the
   head of the lowest-numbered non-empty level queue; the dispatch loads that
   level's quantum and sets start_time only when it is still unset. *)
C7_DispatchIsLevelMajor ==
    [][/\ SelectStep =>
            IF current_job # 0 \/ AllQueuesEmpty
            THEN UNCHANGED <<current_job, queues, quantum_remaining, jobs>>
            ELSE \E l \in 1..Len(queues) :
                    /\ queues[l] # <<>>
                    /\ \A k \in 1..(l - 1) : queues[k] = <<>>
                    /\ DispatchesHeadOf(l)
       /\ (current_job' # 0 /\ current_job' # current_job)
              => (SelectStep /\ current_job = 0)]_vars

(* a job that ran before has just been dispatched again, ahead of a job
   queued at a lower-priority level *)
C7_Witness ==
    /\ engine = "MLFQ" /\ pc = "execute"
    /\ current_job # 0 /\ cpu_time_used = 0
    /\ jobs[current_job].start_time # UNSET
    /\ jobs[current_job].start_time < current_time
    /\ quantum_remaining = time_quantum[jobs[current_job].priority + 1]
    /\ \E l \in (jobs[current_job].priority + 2)..Len(queues) : queues[l] # <<>>

---------------------------------------------------------------------------
(* Arrivals (mlfq.py 106-111) *)

(* the waiting jobs that are due at the current tick *)
DueArrivals == {j \in Range(waiting_jobs) : jobs[j].arrival_time <= current_time}

Queued == UNION {Range(queues[l]) : l \in 1..Len(queues)}

(* the queued jobs that have never been dispatched *)
NewlyArrived == {j \in Queued : jobs[j].start_time = UNSET}

(* C8: every job enters the ready queues at the first tick with
   arrival_time <= current_time, at level 0 with time_in_queue = 0 whatever
   priority and time_in_queue it was constructed with; while it waits for its
   first dispatch no job is dispatched from a level > 0. *)
C8_ArrivalsEnterAtLevelZero ==
    [][/\ AdmitStep =>
            /\ \A j \in DueArrivals :
                  /\ jobs[j].arrival_time = current_time
                  /\ j \notin Range(waiting_jobs')
                  /\ j \in Range(queues'[1])
                  /\ jobs'[j].priority = 0
                  /\ jobs'[j].time_in_queue = 0
            /\ \A j \in Range(waiting_jobs) \ DueArrivals :
                  /\ j \in Range(waiting_jobs')
                  /\ j \notin Queued'
                  /\ jobs'[j] = jobs[j]
       /\ (SelectStep /\ current_job = 0 /\ NewlyArrived # {})
              => /\ NewlyArrived \subseteq Range(queues[1])
                 /\ current_job' = Head(queues[1])]_vars

(* a job constructed with priority > 0 and time_in_queue > 0 has just been
   admitted to level 0 while another job waits at a level > 0 and the CPU is
   free *)
C8_Witness ==
    /\ engine = "MLFQ" /\ pc = "select" /\ current_job = 0
    /\ \E j \in Range(queues[1]) :
          /\ input[j].priority > 0 /\ input[j].time_in_queue > 0
          /\ jobs[j].arrival_time = current_time
          /\ jobs[j].priority = 0 /\ jobs[j].time_in_queue = 0
    /\ \E l \in 2..Len(queues) : queues[l] # <<>>

---------------------------------------------------------------------------
(* Queue discipline within a level (mlfq.py 95-147) *)

(* level l (1-based) after the boost step of this tick *)
AfterBoost(l) ==
    IF BoostDue(boost_interval, time_since_boost)
    THEN IF l = 1 THEN Concat(queues) ELSE <<>>
    ELSE queues[l]

(* the jobs this tick's admit step brings to level l, by origin *)
ReturnedTo(l) == SelectSeq(jobs_returned', LAMBDA j : jobs'[j].priority + 1 = l)

ArrivedTo(l) ==
    IF l = 1 THEN SelectSeq(waiting_jobs, LAMBDA j : j \notin Range(waiting_jobs'))
    ELSE <<>>

RetiredToQueue ==
    /\ current_job # 0 /\ current_job' = 0
    /\ current_job \notin Range(completed')
    /\ current_job \notin Range(io_jobs')

RetiredTo(l) ==
    IF RetiredToQueue /\ jobs'[current_job].priority + 1 = l
    THEN <<current_job>> ELSE <<>>

(* C9: within a level jobs are dispatched in the order they were appended; a
   job whose quantum expires is appended at the tail of its (possibly new)
   level; jobs entering one level in one tick are appended in the order
   I/O returns, then arrivals, then the retired running job. *)
C9_LevelQueuesAreFifo ==
    [][/\ AdmitStep =>
            \A l \in 1..Len(queues) :
                queues'[l] = AfterBoost(l) \o ReturnedTo(l) \o ArrivedTo(l) \o RetiredTo(l)
       /\ SelectStep =>
            \A l \in 1..Len(queues) :
                \/ queues'[l] = queues[l]
                \/ queues[l] # <<>> /\ queues'[l] = Tail(queues[l])
                                    /\ current_job' = Head(queues[l])
       /\ ExecuteStep => queues' = queues]_vars

(* one tick has appended to level 0, behind each other, a job back from I/O,
   a job that has just arrived and the job whose quantum expired *)
C9_Witness ==
    /\ engine = "MLFQ" /\ pc = "select"
    /\ Len(queues[1]) = 3
    /\ queues[1][1] \in Range(jobs_returned)
    /\ jobs[queues[1][2]].arrival_time = current_time
    /\ jobs[queues[1][2]].start_time = UNSET
    /\ queues[1][3] \notin Range(jobs_returned)
    /\ jobs[queues[1][3]].start_time # UNSET
    /\ jobs[queues[1][3]].remaining_time > 0

---------------------------------------------------------------------------
(* CFS selection and execution (cfs.py 101-118) *)

RunStep == engine = "CFS" /\ pc = "run" /\ pc' = "top"

(* the job executed by a run step: the one whose remaining_time changed *)
ExecutedJobs == {j \in DOMAIN jobs : jobs'[j].remaining_time # jobs[j].remaining_time}

PositionIn(s, j) == CHOOSE k \in 1..Len(s) : s[k] = j

(* two jobs of burst 4 arriving at 0, as the first two of test_equal_jobs *)
EqualJobs ==
    /\ Len(input) = 2
    /\ \A i \in 1..2 : input[i].arrival_time = 0 /\ input[i].burst_time = 4

(* C10: every CFS tick executes a ready job of minimal vruntime, the earliest
   inserted among those tied at the minimum; the tick takes 1 off that job's
   remaining_time and adds 1 to its vruntime; two jobs of burst 4 arriving at 0
   run alternately, 1,2,1,2,1,2,1,2. *)
C10_CfsRunsMinVruntime ==
    /\ [][RunStep =>
            \E j \in Range(ready_jobs) :
                /\ ExecutedJobs = {j}
                /\ trace'[Len(trace')][2] = j
                /\ jobs'[j].remaining_time = jobs[j].remaining_time - 1
                /\ \A k \in Range(ready_jobs) :
                       vruntime[jobs[j].job_id] <= vruntime[jobs[k].job_id]
                /\ \A k \in Range(ready_jobs) :
                       PositionIn(ready_jobs, k) < PositionIn(ready_jobs, j)
                           => vruntime[jobs[k].job_id] > vruntime[jobs[j].job_id]
                /\ jobs[j].job_id \in DOMAIN vruntime'
                       => vruntime'[jobs[j].job_id] = vruntime[jobs[j].job_id] + 1
                /\ jobs[j].job_id \notin DOMAIN vruntime'
                       => jobs'[j].remaining_time = 0]_vars
    /\ [](engine = "CFS" /\ pc = "done" /\ EqualJobs
            => [k \in 1..Len(trace) |-> <<trace[k][1], trace[k][2]>>]
                 = << <<0, 1>>, <<1, 2>>, <<2, 1>>, <<3, 2>>,
                      <<4, 1>>, <<5, 2>>, <<6, 1>>, <<7, 2>> >>)

(* the run of the two equal jobs has ended *)
C10_Witness ==
    /\ engine = "CFS" /\ pc = "done" /\ EqualJobs
    /\ Len(trace) = 8 /\ Len(completed) = 2


---------------------------------------------------------------------------
(* CFS arrivals and completion (cfs.py 78-90, 121-136) *)

CfsStep == engine = "CFS" /\ pc \in {"top", "run"} /\ pc' \in {"top", "run"}

ReadyIds(ready) == {jobs[j].job_id : j \in Range(ready)}

(* the jobs a step admits to the ready set *)
AdmittedNow == Range(ready_jobs') \ Range(ready_jobs)

(* the jobs that were ready before the step's arrivals and are unfinished
   once its tick, if any, has run *)
ReadyUnfinished == {j \in Range(ready_jobs) : jobs'[j].remaining_time > 0}

(* the vruntime a newcomer is due: the minimum held by a ready, unfinished
   job at the moment of the arrival, 0 when there is none *)
DueVruntime ==
    IF ReadyUnfinished = {} THEN 0
    ELSE MinOfSet({vruntime'[jobs[j].job_id] : j \in ReadyUnfinished})

(* C11: in CFS an arriving job's vruntime is initialised to the minimum
   vruntime held by a ready (arrived, unfinished) job, or to 0 when the ready
   set is empty, at the top of the loop and right after a tick, the tick in
   which the executed job finished included. *)
C11_ArrivalTakesMinReadyVruntime ==
    [][CfsStep => \A n \in AdmittedNow : vruntime'[jobs[n].job_id] = DueVruntime]_vars

(* the same, except for arrivals right after the tick that finished the last
   ready job: what the code does keep *)
C11_ArrivalTakesMinUnlessLastFinished ==
    [][(CfsStep /\ (ReadyUnfinished # {} \/ pc = "top"))
          => \A n \in AdmittedNow : vruntime'[jobs[n].job_id] = DueVruntime]_vars

(* C12: in CFS a job whose remaining_time reaches 0 leaves the ready set and
   loses its vruntime entry in the same tick: between ticks the job ids with a
   vruntime entry are exactly those of the ready set, every ready job is
   unfinished and no completed job is ready or has an entry. *)
C12_VruntimeKeysAreReadySet ==
    (engine = "CFS" /\ pc \in {"top", "run", "done"}) =>
        /\ DOMAIN vruntime = ReadyIds(ready_jobs)
        /\ \A j \in Range(ready_jobs) : jobs[j].remaining_time > 0
        /\ \A j \in Range(completed) :
              /\ jobs[j].remaining_time = 0
              /\ j \notin Range(ready_jobs)
              /\ jobs[j].job_id \notin DOMAIN vruntime

(* a scheduling decision with one job completed and two still ready *)
C12_Witness ==
    /\ engine = "CFS" /\ pc = "run"
    /\ completed # <<>>
    /\ Len(ready_jobs) = 2
    /\ DOMAIN vruntime = ReadyIds(ready_jobs)

(* job k entered the ready set before job n: an earlier arrival, or the same
   arrival time and an earlier place in the job list *)
AdmittedBefore(k, n) ==
    \/ jobs[k].arrival_time < jobs[n].arrival_time
    \/ jobs[k].arrival_time = jobs[n].arrival_time /\ k < n

(* the number of unfinished jobs in the ready set when job n was admitted *)
ReadyAtAdmission(n) ==
    Cardinality({k \in DOMAIN jobs :
                    /\ k # n
                    /\ AdmittedBefore(k, n)
                    /\ jobs[k].completion_time > jobs[n].arrival_time})

(* C13: in CFS every job's response time start_time - arrival_time is at most
   the number of jobs in the ready set when it was admitted, however long
   those jobs have run. *)
C13_NewcomerRunsSoon ==
    (engine = "CFS" /\ pc = "done") =>
        \A n \in DOMAIN jobs :
            jobs[n].start_time - jobs[n].arrival_time <= ReadyAtAdmission(n)

(* a job admitted behind two jobs that had both run before it arrived waited
   exactly two ticks *)
C13_Witness ==
    /\ engine = "CFS" /\ pc = "done"
    /\ \E n \in DOMAIN jobs :
          /\ ReadyAtAdmission(n) = 2
          /\ jobs[n].start_time - jobs[n].arrival_time = 2
          /\ \A k \in DOMAIN jobs \ {n} : jobs[k].start_time < jobs[n].arrival_time


---------------------------------------------------------------------------
(* Two calls on one instance *)

SecondCallReturned == calls = 1 /\ pc = "done"

(* C14: schedule() called twice on the same engine instance with the same
   jobs returns the same result both times: the same completion order, start
   and completion times, metrics and, for MLFQ, timeline; an MLFQ instance
   with a boost interval included. *)
C14_SecondCallRepeatsFirst ==
    SecondCallReturned =>
        /\ Len(Result.completed) = Len(previous.completed)
        /\ \A k \in 1..Len(Result.completed) :
              /\ Result.completed[k].job_id = previous.completed[k].job_id
              /\ Result.completed[k].start_time = previous.completed[k].start_time
              /\ Result.completed[k].completion_time
                     = previous.completed[k].completion_time
        /\ Result.metrics = previous.metrics
        /\ Result.timeline = previous.timeline

(* the same for every instance but an MLFQ one with a boost interval: what
   the code does keep *)
C14_SecondCallRepeatsFirstWithoutBoost ==
    (SecondCallReturned /\ boost_interval = 0) => Result = previous


---------------------------------------------------------------------------
(* The caller's job list *)

(* The caller's Job objects as they read now: an object the engine works on
   reads as the engine's record of it, a deque the engine works on reads as
   the engine's deque *)
CallerJobs ==
    [i \in DOMAIN input |->
        LET same   == {k \in DOMAIN jobs : jobs[k].obj = input[i].obj}
            shared == {k \in DOMAIN jobs : jobs[k].io_obj = input[i].io_obj}
        IN  IF same # {} THEN jobs[CHOOSE k \in same : TRUE]
            ELSE IF shared # {}
                 THEN [input[i] EXCEPT !.io_operations =
                                           jobs[CHOOSE k \in shared : TRUE].io_operations]
                 ELSE input[i]]

(* C15: every engine works on its own deep copy: during and after schedule()
   every field of every input Job, the io_operations sequence included, reads
   as it did before the call. *)
C15_InputJobsUntouched == CallerJobs = input

(* an MLFQ run has returned after consuming a job's I/O offset and writing
   its start and completion times, on its copies *)
C15_Witness ==
    /\ engine = "MLFQ" /\ pc = "done"
    /\ \E k \in DOMAIN jobs :
          /\ input[k].io_operations # <<>>
          /\ jobs[k].io_operations = <<>>
          /\ jobs[k].remaining_time = 0
          /\ jobs[k].completion_time # UNSET
          /\ CallerJobs[k] = input[k]
          /\ input[k].remaining_time = input[k].burst_time


---------------------------------------------------------------------------
(* The MLFQ timeline (mlfq.py 149-171) *)

(* entry k of the timeline is well formed: a RUNNING or IO entry names the
   job on the CPU at that tick and its level, an IDLE entry names none *)
TimelineEntryOk(k) ==
    LET e == timeline[k]
    IN  /\ EntryTime(e) = k - 1
        /\ IF EntryStatus(e) \in {"RUNNING", "IO"}
           THEN /\ \E j \in DOMAIN input :
                      /\ EntryJob(e) = input[j].job_id
                      /\ snapshots[k].running = j
                      /\ EntryPriority(e) = snapshots[k].priority[j]
                /\ EntryPriority(e) \in 0..(num_queues - 1)
           ELSE /\ EntryStatus(e) = "IDLE"
                /\ EntryJob(e) = UNSET
                /\ EntryPriority(e) = UNSET
                /\ snapshots[k].running = 0

(* C16: the MLFQ timeline has exactly one entry per simulated tick, with the
   times 0, 1, 2, ... in order; each entry is RUNNING or IO with a real job_id
   and that job's level, or IDLE with job_id -1 and priority -1. *)
C16_TimelineOneEntryPerTick ==
    engine = "MLFQ" =>
        /\ Len(timeline) = current_time
        /\ \A k \in 1..Len(timeline) : TimelineEntryOk(k)

(* a finished run whose timeline has entries of all three kinds *)
C16_Witness ==
    /\ engine = "MLFQ" /\ pc = "done"
    /\ \A st \in {"RUNNING", "IO", "IDLE"} :
          \E k \in 1..(Len(timeline) - 1) : EntryStatus(timeline[k]) = st
    /\ \E k \in 1..Len(timeline) : EntryPriority(timeline[k]) > 0


---------------------------------------------------------------------------
(* The baseline policies (baselines.py) *)

(* a baseline step that puts a job on the CPU *)
Dispatch(e) == engine = e /\ pc = "top" /\ Len(trace') = Len(trace) + 1

(* the job the step runs, and for how long *)
Dispatched == trace'[Len(trace')][2]
SliceLength == trace'[Len(trace')][3]

(* the jobs that have arrived and are not finished *)
Candidates == {k \in Range(remaining) : jobs[k].arrival_time <= current_time}

(* C17: every STCF tick runs a job of minimal remaining_time among the
   arrived unfinished jobs, and among those tied at the minimum the one that
   entered the arrived set first, whatever the order of the job list. *)
C17_StcfRunsShortestEarliest ==
    [][Dispatch("STCF") =>
          /\ Dispatched \in Candidates
          /\ SliceLength = 1
          /\ jobs'[Dispatched].remaining_time = jobs[Dispatched].remaining_time - 1
          /\ \A k \in Candidates :
                /\ jobs[Dispatched].remaining_time <= jobs[k].remaining_time
                /\ (k # Dispatched
                      /\ jobs[k].remaining_time = jobs[Dispatched].remaining_time)
                      => ~AdmittedBefore(k, Dispatched)]_vars

(* the same with ties going to the earliest place in the job list: what the
   code does keep *)
C17_StcfRunsShortestFirstListed ==
    [][Dispatch("STCF") =>
          /\ Dispatched \in Candidates
          /\ \A k \in Candidates :
                /\ jobs[Dispatched].remaining_time <= jobs[k].remaining_time
                /\ jobs[k].remaining_time = jobs[Dispatched].remaining_time
                      => Dispatched <= k]_vars

(* the completed jobs' burst times never decrease, equal bursts in list order *)
CompletedInBurstOrder ==
    \A p, q \in 1..Len(completed) :
        p < q => \/ jobs[completed[p]].burst_time < jobs[completed[q]].burst_time
                 \/ /\ jobs[completed[p]].burst_time = jobs[completed[q]].burst_time
                    /\ completed[p] < completed[q]

(* C18: every SJF dispatch takes the arrived job of smallest burst_time, the
   earliest placed among equals; it runs unpreempted, completion_time =
   start_time + burst_time; when all jobs arrive at 0 they complete in
   ascending burst_time order. *)
C18_SjfRunsShortestBurst ==
    /\ [][Dispatch("SJF") =>
             /\ Dispatched \in Candidates
             /\ \A k \in Candidates :
                   /\ jobs[Dispatched].burst_time <= jobs[k].burst_time
                   /\ jobs[k].burst_time = jobs[Dispatched].burst_time
                         => Dispatched <= k
             /\ jobs'[Dispatched].start_time = current_time
             /\ jobs'[Dispatched].completion_time
                    = current_time + jobs[Dispatched].burst_time
             /\ current_time' = jobs'[Dispatched].completion_time
             /\ completed' = Append(completed, Dispatched)]_vars
    /\ []((engine = "SJF" /\ pc = "done"
              /\ \A k \in DOMAIN jobs : jobs[k].arrival_time = 0)
            => CompletedInBurstOrder)

(* three jobs arriving at 0, the longest listed first, have completed
   shortest first *)
C18_Witness ==
    /\ engine = "SJF" /\ pc = "done" /\ Len(completed) = 3
    /\ \A k \in DOMAIN jobs : jobs[k].arrival_time = 0
    /\ jobs[1].burst_time > jobs[2].burst_time
    /\ jobs[2].burst_time > jobs[3].burst_time
    /\ completed = <<3, 2, 1>>

(* the time at which the k-th job FIFO runs can start *)
FifoFreeAt(k) == IF k = 1 THEN 0 ELSE jobs[completed[k - 1]].completion_time

(* C19: FIFO runs the jobs to completion in non-decreasing arrival_time
   order, equal arrivals in list order, jumping over idle gaps; Job(1,0,10),
   Job(2,0,5), Job(3,0,8) start at 0, 10, 15 and complete at 10, 15, 23. *)
C19_FifoRunsInArrivalOrder ==
    (engine = "FIFO" /\ pc = "done") =>
        /\ \A p, q \in 1..Len(completed) :
              p < q => AdmittedBefore(completed[p], completed[q])
        /\ \A k \in 1..Len(completed) :
              LET j == jobs[completed[k]]
              IN  /\ j.start_time = IF FifoFreeAt(k) < j.arrival_time
                                    THEN j.arrival_time ELSE FifoFreeAt(k)
                  /\ j.completion_time = j.start_time + j.burst_time
        /\ ([k \in 1..Len(input) |-> <<input[k].arrival_time, input[k].burst_time>>]
                = << <<0, 10>>, <<0, 5>>, <<0, 8>> >>
              => /\ completed = <<1, 2, 3>>
                 /\ [k \in 1..3 |-> jobs[k].start_time] = <<0, 10, 15>>
                 /\ [k \in 1..3 |-> jobs[k].completion_time] = <<10, 15, 23>>)

(* the run of Job(1,0,10), Job(2,0,5), Job(3,0,8) has ended *)
C19_Witness ==
    /\ engine = "FIFO" /\ pc = "done"
    /\ [k \in 1..Len(input) |-> <<input[k].arrival_time, input[k].burst_time>>]
           = << <<0, 10>>, <<0, 5>>, <<0, 8>> >>
    /\ Len(completed) = 3

(* the waiting jobs that arrive in the time range lo..hi, in waiting order *)
ArrivingIn(lo, hi) ==
    SelectSeq(waiting_jobs,
              LAMBDA k : lo <= jobs[k].arrival_time /\ jobs[k].arrival_time <= hi)

TwoLongJobs ==
    /\ Len(input) = 2
    /\ \A i \in 1..2 : input[i].arrival_time = 0 /\ input[i].burst_time = 10

(* C20: every Round Robin dispatch runs the head of the ready queue for
   min(quantum, remaining_time) ticks; the jobs that arrive during the slice
   are appended before the unfinished job goes to the tail; with quantum 2,
   two jobs of burst 10 arriving at 0 alternate every 2 ticks and complete at
   18 and 20. *)
C20_RoundRobinSlices ==
    /\ [][Dispatch("RR") =>
             LET queue == ready_queue \o ArrivingIn(0, current_time)
                 j == Dispatched
                 n == SliceLength
             IN  /\ j = Head(queue)
                 /\ n = Min2(rr_time_quantum, jobs[j].remaining_time)
                 /\ jobs'[j].remaining_time = jobs[j].remaining_time - n
                 /\ current_time' = current_time + n
                 /\ ready_queue' =
                        Tail(queue) \o ArrivingIn(current_time + 1, current_time + n)
                            \o (IF jobs'[j].remaining_time > 0 THEN <<j>> ELSE <<>>)]_vars
    /\ []((engine = "RR" /\ pc = "done" /\ TwoLongJobs /\ rr_time_quantum = 2)
            => /\ trace = [k \in 1..10 |-> <<2 * (k - 1), 2 - (k % 2), 2>>]
               /\ jobs[1].completion_time = 18
               /\ jobs[2].completion_time = 20)

(* the run of the two jobs of burst 10 has ended *)
C20_Witness ==
    /\ engine = "RR" /\ pc = "done" /\ TwoLongJobs
    /\ Len(trace) = 10 /\ Len(completed) = 2


---------------------------------------------------------------------------
(* The result of schedule(): the completed list and the metrics *)

(* the arithmetic mean kept as <<sum, count>> is the mean of the array s *)
IsMeanOf(avg, s) == avg = <<SeqSum(s), Len(s)>> /\ Len(s) > 0

(* C21: for every engine the completed list is in completion event order
   (completion_time never decreases along it) and the metrics arrays are
   parallel to it: turnaround_times[i] = completion_time - arrival_time and
   response_times[i] = start_time - arrival_time of completed[i], and the
   averages are the arithmetic means of these arrays. *)
C21_MetricsParallelToCompleted ==
    /\ \A p, q \in 1..Len(completed) :
          p < q => jobs[completed[p]].completion_time
                       <= jobs[completed[q]].completion_time
    /\ pc = "done" =>
          /\ Len(metrics.turnaround_times) = Len(completed)
          /\ Len(metrics.response_times) = Len(completed)
          /\ \A i \in 1..Len(completed) :
                LET j == jobs[completed[i]]
                IN  /\ metrics.turnaround_times[i] = j.completion_time - j.arrival_time
                    /\ metrics.response_times[i] = j.start_time - j.arrival_time
          /\ IsMeanOf(metrics.avg_turnaround, metrics.turnaround_times)
          /\ IsMeanOf(metrics.avg_response, metrics.response_times)

(* a finished run whose completion order is not the list order and whose
   jobs have different turnaround and response times *)
C21_Witness ==
    /\ pc = "done" /\ Len(completed) >= 2
    /\ completed[1] > completed[2]
    /\ metrics.turnaround_times[1] # metrics.turnaround_times[2]
    /\ metrics.response_times[1] # metrics.response_times[2]
    /\ jobs[completed[1]].completion_time < jobs[completed[2]].completion_time


---------------------------------------------------------------------------
(* Construction (job.py 6-28, mlfq.py 56-74) *)

(* a list argument that is given has one entry per level *)
ListArgValid(arg) == arg = <<>> \/ Len(arg[1]) = ctor_args.num_queues

(* Job arguments <<arrival, burst, priority, time_in_queue, io_duration,
   io_operations>>: burst_time > 0 and every I/O offset < burst_time *)
JobArgsValid(p) == p[2] > 0 /\ \A k \in 1..Len(p[6]) : p[6][k] < p[2]

ArgsValid ==
    /\ ListArgValid(ctor_args.time_quantum)
    /\ ListArgValid(ctor_args.time_allotments)
    /\ \A i \in 1..Len(ctor_args.jobs) : JobArgsValid(ctor_args.jobs[i])

(* C22: invalid configuration is rejected at construction: an MLFQ engine
   whose time_quantum or time_allotments list length differs from num_queues,
   or a Job with burst_time <= 0 or an I/O offset >= burst_time, is never
   constructed, so no schedule run starts with such a configuration. *)
C22_InvalidConfigurationRejected == pc # "new" => ArgsValid

(* what the constructors do: the scheduler and the jobs hold the arguments
   exactly as they were given, valid or not *)
C22_ArgumentsStoredAsGiven ==
    (engine = "MLFQ" /\ pc \notin {"new"} /\ ctor_args # NoArgs) =>
        /\ num_queues = ctor_args.num_queues
        /\ ctor_args.time_quantum # <<>> => time_quantum = ctor_args.time_quantum[1]
        /\ ctor_args.time_allotments # <<>>
              => time_allotments = ctor_args.time_allotments[1]
        /\ \A i \in 1..Len(input) :
              /\ input[i].burst_time = ctor_args.jobs[i][2]
              /\ Range(input[i].io_operations) = Range(ctor_args.jobs[i][6])


(* C23: computing metrics over an empty completed list is an error surfaced
   to the caller: schedule([]) on any engine ends in the error outcome, and a
   call never returns averages over zero jobs. *)
C23_EmptyCompletedIsError ==
    /\ [](pc = "done" =>
             /\ Len(completed) > 0
             /\ ~metrics.error
             /\ metrics.avg_turnaround[2] = Len(completed)
             /\ metrics.avg_response[2] = Len(completed))
    /\ []((Terminated /\ completed = <<>>) => (pc = "error" /\ metrics.error))
    /\ (input = <<>>) ~> (pc = "error" /\ metrics.error)

(* schedule([]) has raised *)
C23_Witness ==
    /\ input = <<>> /\ pc = "error" /\ metrics.error
    /\ completed = <<>> /\ calls = 0


---------------------------------------------------------------------------
(* MLFQ: what changes priority and time_in_queue (mlfq.py 91-135, 178-198) *)

(* the step keeps job j's level and its time at that level *)
KeepsLevel(j) ==
    /\ jobs'[j].priority = jobs[j].priority
    /\ jobs'[j].time_in_queue = jobs[j].time_in_queue

(* C24: a boost changes only jobs that are queued or executing: a job that
   has yielded for I/O and has not yet returned to a ready queue
   (waiting_for_io = true) keeps its priority and time_in_queue across every
   boost until it returns. *)
C24_BoostSkipsIoWaiters ==
    [][AdmitStep => \A j \in DOMAIN jobs : jobs[j].waiting_for_io => KeepsLevel(j)]_vars

(* the same for the jobs that have reached the I/O-wait list: what the code
   does keep *)
C24_BoostSkipsIoList ==
    [][AdmitStep => \A j \in Range(io_jobs) : KeepsLevel(j)]_vars


(* job j has an allotment to respect: it is above the lowest level *)
AboveLowest(j) == jobs[j].priority < num_queues - 1

(* C25: the allotment bounds the CPU time a job accumulates at one level
   before demotion: for every job at a level below the lowest,
   time_in_queue never exceeds the allotment of its level, with or without
   I/O yields and boosts. *)
C25_AllotmentBoundsTimeInQueue ==
    engine = "MLFQ" =>
        \A j \in DOMAIN jobs :
            AboveLowest(j) =>
                jobs[j].time_in_queue <= time_allotments[jobs[j].priority + 1]

(* the same for jobs without I/O: what the code does keep with the default
   quanta and allotments *)
C25_AllotmentBoundsCpuBoundJobs ==
    engine = "MLFQ" =>
        \A j \in DOMAIN jobs :
            (AboveLowest(j) /\ input[j].io_operations = <<>>) =>
                jobs[j].time_in_queue <= time_allotments[jobs[j].priority + 1]


(* the causes of a reset in the admit step of a tick: job j arrives, the tick
   boosts and j is queued or on the CPU, or j's quantum has expired with its
   allotment used up *)
ArrivesNow(j) == j \in Range(waiting_jobs) /\ j \notin Range(waiting_jobs')

BoostedNow(j) ==
    /\ BoostDue(boost_interval, time_since_boost)
    /\ j \in Queued \cup {current_job}

DemotedNow(j) ==
    /\ j = current_job /\ current_job' = 0
    /\ quantum_remaining <= 0
    /\ jobs[j].remaining_time > 0 /\ ~jobs[j].waiting_for_io
    /\ jobs'[j].priority = Min2(jobs[j].priority + 1, num_queues - 1)

(* the execute step runs job j for one time unit *)
RunsNow(j) ==
    /\ ExecuteStep /\ j = current_job
    /\ EntryStatus(timeline'[Len(timeline')]) = "RUNNING"

(* the retire step of tick t (t >= 1) found job j's quantum expired: j ran in
   tick t - 1, did not complete, and tick t dispatched anew *)
ExpiredAt(j, t) ==
    /\ EntryJob(timeline[t]) = j /\ EntryStatus(timeline[t]) = "RUNNING"
    /\ snapshots[t + 1].dispatched
    /\ jobs[j].completion_time # t

(* no boost in the ticks lo..hi *)
NoBoostIn(lo, hi) ==
    boost_interval # 0 => \A m \in lo..hi : snapshots[m + 1].since_boost # 0

(* job j yielded in tick k - 1 one tick short of the allotment of its level *)
YieldedNearAllotment(j, k) ==
    /\ EntryJob(timeline[k]) = j /\ EntryStatus(timeline[k]) = "IO"
    /\ snapshots[k].time_in_queue[j]
           = time_allotments[snapshots[k].priority[j] + 1] - 1

(* tick t holds job j's first quantum expiry after the yield of tick k - 1 *)
FirstExpiryAfter(j, k, t) ==
    /\ t >= k /\ t + 1 <= Len(snapshots)
    /\ ExpiredAt(j, t)
    /\ \A m \in k..(t - 1) : ~ExpiredAt(j, m)

(* C26: time_in_queue is reset to 0 only by arrival, demotion and boost;
   yielding for I/O, waiting in I/O and returning from I/O leave it unchanged
   (it grows by 1 per executed tick), so a job that yields one tick short of
   its allotment is demoted at its first quantum expiry after returning. *)
C26_IoKeepsTimeInQueue ==
    /\ [][\A j \in DOMAIN jobs :
             (engine = "MLFQ" /\ DOMAIN jobs' = DOMAIN jobs
                 /\ jobs'[j].time_in_queue # jobs[j].time_in_queue)
               => IF RunsNow(j)
                  THEN jobs'[j].time_in_queue = jobs[j].time_in_queue + 1
                  ELSE /\ AdmitStep
                       /\ jobs'[j].time_in_queue = 0
                       /\ (ArrivesNow(j) \/ BoostedNow(j) \/ DemotedNow(j))]_vars
    /\ [](engine = "MLFQ" =>
             \A j \in DOMAIN jobs : \A k \in 1..Len(timeline) :
                 \A t \in k..(Len(snapshots) - 1) :
                     (YieldedNearAllotment(j, k) /\ FirstExpiryAfter(j, k, t)
                          /\ NoBoostIn(k, t))
                       => /\ snapshots[t + 1].priority[j]
                                = Min2(snapshots[k].priority[j] + 1, num_queues - 1)
                          /\ snapshots[t + 1].time_in_queue[j] = 0)

(* a job yielded at level 1 with 3 of its 4 ticks used, came back and was
   demoted to level 2 at its next quantum expiry *)
C26_Witness ==
    /\ engine = "MLFQ" /\ pc = "done"
    /\ \E j \in DOMAIN jobs : \E k \in 1..Len(timeline) :
          \E t \in k..(Len(snapshots) - 1) :
              /\ YieldedNearAllotment(j, k) /\ FirstExpiryAfter(j, k, t)
              /\ NoBoostIn(k, t)
              /\ snapshots[k].priority[j] = 1
              /\ snapshots[k].time_in_queue[j] = 3
              /\ snapshots[t + 1].priority[j] = 2


---------------------------------------------------------------------------
(* MLFQ: I/O ticks (mlfq.py 149-164, job.py 30-35) *)

(* the timeline entries of job j with status st, and its IO entries in order *)
EntriesOf(j, st) ==
    {k \in 1..Len(timeline) :
        EntryJob(timeline[k]) = j /\ EntryStatus(timeline[k]) = st}

IoEntrySeq(j) == SetToSeq(EntriesOf(j, "IO"))

(* the CPU time job j has received before timeline entry k *)
CpuBefore(j, k) == Cardinality({m \in EntriesOf(j, "RUNNING") : m < k})

(* the execute step is an I/O tick of the job on the CPU *)
IoTick ==
    /\ ExecuteStep /\ current_job # 0
    /\ EntryStatus(timeline'[Len(timeline')]) = "IO"

(* C27: an I/O tick consumes the matching offset and leaves remaining_time,
   time_in_queue and the quantum budget unchanged; each offset triggers
   exactly once; hence for every completed job with strictly ascending
   offsets < burst_time the timeline holds exactly burst_time RUNNING entries
   and one IO entry per offset, the k-th IO entry occurring when the job's
   cumulative CPU time equals the k-th offset. *)
C27_IoTicksConsumeOffsets ==
    /\ [][IoTick =>
             LET old == jobs[current_job]
                 new == jobs'[current_job]
             IN  /\ old.io_operations # <<>>
                 /\ Head(old.io_operations) = old.burst_time - old.remaining_time
                 /\ new.io_operations = Tail(old.io_operations)
                 /\ new.remaining_time = old.remaining_time
                 /\ new.time_in_queue = old.time_in_queue
                 /\ quantum_remaining' = quantum_remaining
                 /\ new.waiting_for_io]_vars
    /\ [](engine = "MLFQ" =>
             \A j \in Range(completed) :
                 /\ Cardinality(EntriesOf(j, "RUNNING")) = input[j].burst_time
                 /\ Len(IoEntrySeq(j)) = Len(input[j].io_operations)
                 /\ \A n \in 1..Len(IoEntrySeq(j)) :
                       CpuBefore(j, IoEntrySeq(j)[n]) = input[j].io_operations[n])

(* a job with two I/O offsets, the second one not right after the first, has
   completed next to another job *)
C27_Witness ==
    /\ engine = "MLFQ" /\ pc = "done" /\ Len(completed) = 2
    /\ \E j \in Range(completed) :
          /\ Len(input[j].io_operations) = 2
          /\ input[j].io_operations[2] > input[j].io_operations[1] + 1
          /\ Len(IoEntrySeq(j)) = 2


(* the demotion test of the retire step succeeds for job j *)
AllotmentUsed(j) ==
    jobs[j].time_in_queue >= time_allotments[jobs[j].priority + 1]

(* every job's level is one of the engine's levels *)
PriorityInRange ==
    engine = "MLFQ" =>
        \A j \in DOMAIN jobs : jobs[j].priority \in 0..(num_queues - 1)

(* a step that raises job j's priority number is a demotion by one level at a
   quantum expiry with the allotment used up *)
RaisedOnlyByDemotion(j) ==
    jobs'[j].priority > jobs[j].priority =>
        /\ jobs'[j].priority = jobs[j].priority + 1
        /\ AdmitStep /\ DemotedNow(j) /\ AllotmentUsed(j)

(* C28: every job's priority is in [0, levels - 1] in every reachable state;
   it increases only by exactly 1 (capped at levels - 1) and only at a quantum
   expiry at which time_in_queue >= allotment[level], and it decreases only
   to 0 and only through a boost. *)
C28_PriorityMovesByDemotionAndBoost ==
    /\ []PriorityInRange
    /\ [][\A j \in DOMAIN jobs :
             (engine = "MLFQ" /\ DOMAIN jobs' = DOMAIN jobs) =>
                 /\ RaisedOnlyByDemotion(j)
                 /\ jobs'[j].priority < jobs[j].priority =>
                       /\ jobs'[j].priority = 0
                       /\ AdmitStep /\ BoostedNow(j)]_vars

(* the same with the arrival as a second way down: a job constructed with a
   priority above 0 enters at level 0 *)
C28_PriorityMovesByDemotionBoostAndArrival ==
    /\ []PriorityInRange
    /\ [][\A j \in DOMAIN jobs :
             (engine = "MLFQ" /\ DOMAIN jobs' = DOMAIN jobs) =>
                 /\ RaisedOnlyByDemotion(j)
                 /\ jobs'[j].priority < jobs[j].priority =>
                       /\ jobs'[j].priority = 0
                       /\ AdmitStep
                       /\ (BoostedNow(j) \/ ArrivesNow(j))]_vars

(* a job constructed at priority 1 has run at level 0, then at level 1, then
   at level 0 again *)
C28_Witness ==
    /\ engine = "MLFQ" /\ pc = "done" /\ boost_interval # 0
    /\ \E j \in DOMAIN jobs :
          /\ input[j].priority = 1
          /\ \E k1, k2, k3 \in EntriesOf(j, "RUNNING") :
                /\ k1 < k2 /\ k2 < k3
                /\ EntryPriority(timeline[k1]) = 0
                /\ EntryPriority(timeline[k2]) = 1
                /\ EntryPriority(timeline[k3]) = 0


---------------------------------------------------------------------------
(* MLFQ: where a job is (mlfq.py 89-147, 178-198) *)

(* how many times job j occurs in the list s *)
CountIn(s, j) == Cardinality({k \in 1..Len(s) : s[k] = j})

(* the number of places that hold job j: the waiting list, the level queues,
   the CPU, the I/O-wait list and the completed list *)
PlacesOf(j) ==
    CountIn(waiting_jobs, j)
        + SeqSum([l \in 1..Len(queues) |-> CountIn(queues[l], j)])
        + (IF current_job = j THEN 1 ELSE 0)
        + CountIn(io_jobs, j)
        + CountIn(completed, j)

(* C29: at every tick boundary each submitted job is in exactly one place:
   not yet arrived, in exactly one level queue (once, at the queue of its
   priority), running, in the I/O-wait set, or completed; a job with
   waiting_for_io = true is never in a ready queue, and a job in the
   completed list is never modified again. *)
C29_EachJobInOnePlace ==
    /\ []((engine = "MLFQ" /\ pc = "top") =>
             \A j \in DOMAIN jobs :
                 /\ PlacesOf(j) = 1
                 /\ \A l \in 1..Len(queues) :
                       j \in Range(queues[l]) => jobs[j].priority = l - 1)
    /\ [](engine = "MLFQ" =>
             \A j \in DOMAIN jobs : jobs[j].waiting_for_io => j \notin Queued)
    /\ [][(engine = "MLFQ" /\ DOMAIN jobs' = DOMAIN jobs) =>
             /\ \A j \in Range(completed) : jobs'[j] = jobs[j]
             /\ SubSeq(completed', 1, Len(completed)) = completed]_vars

(* a tick boundary with one job on the CPU, one in I/O wait and one queued
   below the top level *)
C29_Witness ==
    /\ engine = "MLFQ" /\ pc = "top"
    /\ current_job # 0 /\ io_jobs # <<>>
    /\ \E l \in 2..Len(queues) : queues[l] # <<>>
    /\ \A j \in DOMAIN jobs : PlacesOf(j) = 1


---------------------------------------------------------------------------
(* MLFQ: idle ticks (mlfq.py 137-167) *)

(* the entry the execute step records *)
NewEntry == timeline'[Len(timeline')]

(* C30: MLFQ is work-conserving: an IDLE entry is recorded at tick t only if,
   after the boost, I/O-return, arrival and retire steps of tick t, every
   level queue is empty and no job is running; whenever some job is in a ready
   queue or running at the execute step of a tick, that tick's entry is
   RUNNING or IO. *)
C30_IdleOnlyWhenNothingReady ==
    /\ [][SelectStep =>
             (current_job' = 0 <=> (current_job = 0 /\ AllQueuesEmpty))]_vars
    /\ [][ExecuteStep =>
             /\ Len(timeline') = Len(timeline) + 1
             /\ EntryTime(NewEntry) = current_time
             /\ IF current_job = 0 /\ AllQueuesEmpty
                THEN EntryStatus(NewEntry) = "IDLE"
                ELSE /\ EntryStatus(NewEntry) \in {"RUNNING", "IO"}
                     /\ current_job # 0
                     /\ EntryJob(NewEntry) = jobs[current_job].job_id]_vars

(* a finished run with a tick that was idle while a job was in I/O wait, and
   a tick at which a job ran from a level below the top *)
C30_Witness ==
    /\ engine = "MLFQ" /\ pc = "done"
    /\ \E k \in 1..Len(timeline) :
          EntryStatus(timeline[k]) = "IDLE" /\ snapshots[k].in_io # {}
    /\ \E k \in 1..Len(timeline) :
          EntryStatus(timeline[k]) = "RUNNING" /\ EntryPriority(timeline[k]) > 0

---------------------------------------------------------------------------
(* CFS fairness (cfs.py 77-136) *)

(* a scheduling decision: line 104 is about to pick *)
CfsDecision == engine = "CFS" /\ pc = "run"

(* the vruntime values held by the ready set *)
ReadyVruntimes == {vruntime[jobs[j].job_id] : j \in Range(ready_jobs)}

(* the number of ticks job k got among the executed ticks lo..hi *)
TicksOf(k, lo, hi) == Cardinality({n \in lo..hi : trace[n][2] = k})

(* job k was in the ready set at the decision of the n-th executed tick: it
   had arrived and had not yet run for its whole burst *)
ReadyAtTick(k, n) ==
    /\ jobs[k].arrival_time <= trace[n][1]
    /\ TicksOf(k, 1, n - 1) < jobs[k].burst_time

(* the a-th and b-th executed ticks are consecutive executions of job j *)
ConsecutiveRuns(j, a, b) ==
    /\ a < b
    /\ trace[a][2] = j /\ trace[b][2] = j
    /\ \A n \in (a + 1)..(b - 1) : trace[n][2] # j

(* C31: in CFS, at every scheduling decision the vruntime values of any two
   jobs of the ready set differ by at most 1, whatever the arrival pattern;
   the ready set is made of the arrived, unfinished jobs; and between two
   consecutive executions of a job, every other job that is ready at both of
   them executes at most once. *)
C31_CfsVruntimeSpreadAtMostOne ==
    /\ CfsDecision =>
          /\ \A x, y \in ReadyVruntimes : x - y <= 1
          /\ Range(ready_jobs) =
                {k \in DOMAIN jobs : /\ jobs[k].arrival_time <= current_time
                                     /\ jobs[k].remaining_time > 0}
          /\ \A k \in Range(ready_jobs) :
                TicksOf(k, 1, Len(trace)) = jobs[k].burst_time - jobs[k].remaining_time
    /\ engine = "CFS" =>
          \A j \in DOMAIN jobs : \A a, b \in 1..Len(trace) :
              ConsecutiveRuns(j, a, b) =>
                  \A k \in DOMAIN jobs \ {j} :
                      (ReadyAtTick(k, a) /\ ReadyAtTick(k, b))
                          => TicksOf(k, a + 1, b - 1) <= 1

(* a decision with three ready jobs, one of which arrived after time 0, whose
   vruntime values differ by 1, after a job has run twice with both other
   jobs, ready throughout, running once each in between *)
C31_Witness ==
    /\ CfsDecision
    /\ Len(ready_jobs) = 3
    /\ \E x, y \in ReadyVruntimes : x - y = 1
    /\ \E k \in Range(ready_jobs) : jobs[k].arrival_time > 0
    /\ \E j \in DOMAIN jobs : \E a \in 1..Len(trace) :
          /\ a + 3 <= Len(trace)
          /\ ConsecutiveRuns(j, a, a + 3)
          /\ \A k \in DOMAIN jobs \ {j} :
                /\ ReadyAtTick(k, a) /\ ReadyAtTick(k, a + 3)
                /\ TicksOf(k, a + 1, a + 2) = 1

---------------------------------------------------------------------------
(* The end of the MLFQ run (mlfq.py 89, 113-119, 149-171) *)

(* the ticks of the RUNNING entries of job j *)
RunningTicks(j) ==
    {EntryTime(timeline[k]) : k \in {n \in 1..Len(timeline) :
        /\ EntryStatus(timeline[n]) = "RUNNING"
        /\ EntryJob(timeline[n]) = jobs[j].job_id}}

(* the largest completion_time of the job set *)
LastCompletion == MaxOfSet({jobs[j].completion_time : j \in DOMAIN jobs})

(* C32: when an MLFQ run on a non-empty job set has returned, every job's
   completion_time is the tick of its last RUNNING entry plus 1; the loop ran
   one more tick after the final execution tick of the job completed last, to
   retire it: the timeline has exactly (largest completion_time + 1) entries,
   the last but one is the final RUNNING entry of a job completed last, and
   the last is an IDLE entry at tick = largest completion_time. *)
C32_TimelineEndsWithRetireTick ==
    (engine = "MLFQ" /\ pc = "done") =>
        /\ input # <<>>
        /\ \A j \in DOMAIN jobs :
              /\ RunningTicks(j) # {}
              /\ jobs[j].completion_time = MaxOfSet(RunningTicks(j)) + 1
        /\ Len(timeline) = LastCompletion + 1
        /\ current_time = LastCompletion + 1
        /\ timeline[Len(timeline)] = <<LastCompletion, UNSET, UNSET, "IDLE">>
        /\ LET e == timeline[Len(timeline) - 1]
           IN  /\ EntryStatus(e) = "RUNNING"
               /\ EntryTime(e) = LastCompletion - 1
               /\ \E j \in DOMAIN jobs :
                     /\ EntryJob(e) = jobs[j].job_id
                     /\ jobs[j].completion_time = LastCompletion

(* a returned run of two jobs completed at different ticks, with an I/O yield
   and an idle tick before the end *)
C32_Witness ==
    /\ engine = "MLFQ" /\ pc = "done"
    /\ Len(jobs) = 2
    /\ jobs[1].completion_time # jobs[2].completion_time
    /\ \E k \in 1..(Len(timeline) - 1) : EntryStatus(timeline[k]) = "IO"
    /\ \E k \in 1..(Len(timeline) - 1) : EntryStatus(timeline[k]) = "IDLE"
    /\ Len(timeline) = LastCompletion + 1
    /\ EntryStatus(timeline[Len(timeline)]) = "IDLE"

============================================================================
